---- MODULE Spec2Model ----
(***************************************************************************)
(* Airdump: scan orchestrator lifecycle (scan_orchestrator.py), power      *)
(* monitor task (drone/power_monitor.py) and the durable store with its    *)
(* retry / buffer / replay path (core/database.py, core/models.py).        *)
(*                                                                         *)
(* Spec       - the orchestrator process: main thread (main(), start(),    *)
(*              atexit hook, nested signal handler), main-loop thread and  *)
(*              power-monitor thread, each stepping through stop().        *)
(* StoreSpec  - writer tasks using Database objects on one database file.  *)
(***************************************************************************)
EXTENDS Integers, Sequences, FiniteSets, TLC

(***************************************************************************)
(* Bounds                                                                  *)
(***************************************************************************)
MaxSignals == 1
MaxOps == 2
MaxEpoch == 2
MaxStatements == 2
MaxPolls == 3
MaxClock == 4
MaxProbes == 3
MaxSamples == 2
MaxCallbacks == 2
HistorySize == 1
MaxGpsTime == 12
MaxFixes == 2
MaxPowerSamples == 4

(***************************************************************************)
(* Orchestrator state                                                      *)
(***************************************************************************)
VARIABLES
    mainPc,             \* position of the main thread in main()/start()/atexit
    mainRet,            \* call site of the main thread's current stop() call
    duration,           \* TRUE for a bounded run start(duration)
    running,            \* ScanOrchestrator._running
    active_orchestrator,\* module global _active_orchestrator is set
    shutdown_event,     \* ScanOrchestrator._shutdown_event
    comp,               \* state of each component attribute of the orchestrator
    connection,         \* Database._connection: "none" | "open"
    connOwner,          \* thread that created the open connection
    session,            \* self._session is set
    sessionRow,         \* the scan_sessions row of this session
    stopPc,             \* position of each stop() invocation context
    loopPc,             \* main-loop thread
    pmPc,               \* power-monitor thread
    pmRunning,          \* PowerMonitor._running
    pmThread,           \* PowerMonitor._thread is set
    power_state,        \* PowerMonitor._power_state
    sigCount,           \* signals delivered so far
    sigInStartup,       \* a signal arrived inside start(), before line 189
    startResult,        \* return value of start()
    dbOutcome,          \* outcome of _init_database
    initOk,             \* components whose _init_*() reported success
    excInStart,         \* an exception reached start()'s except clause
    everRunning,        \* _running has been set by start()
    stopPasses,         \* executions of line 518 (stop() got past its guard)
    updateCalls,        \* update_session statements executed by stop()
    closeCalls,         \* store closes performed by stop()
    restoreCalls        \* invocations of restore_managed_mode

orchVars == <<mainPc, mainRet, duration, running, active_orchestrator,
              shutdown_event, comp, connection, connOwner, session, sessionRow,
              stopPc, loopPc, pmPc, pmRunning, pmThread, power_state, sigCount,
              sigInStartup, startResult, dbOutcome, initOk, excInStart,
              everRunning, stopPasses, updateCalls, closeCalls, restoreCalls>>

(***************************************************************************)
(* Store state: Database objects of several tasks on one database file     *)
(***************************************************************************)
VARIABLES
    tables,             \* rows of wifi_devices and bt_devices, in id order
    bufFiles,           \* buffer_<kind>_<epoch>.jsonl files under backup_dir
    now,                \* int(time.time())
    conn,               \* Database._connection of each task's Database
    pc,                 \* position of each task inside insert_*_device
    cur,                \* the device a task is inserting
    existing,           \* id found by the task's SELECT, 0 for no row
    failed,             \* failed attempts of the task's current insert
    result,             \* what the task's last insert returned
    closedAtCall,       \* the connection was closed when the insert began
    opsLeft             \* inserts still to be issued

storeVars == <<tables, bufFiles, now, conn, pc, cur, existing, failed, result,
               closedAtCall, opsLeft>>

(***************************************************************************)
(* Connection state: writes executed on a connection and not yet committed *)
(***************************************************************************)
VARIABLES
    pending             \* per task, the uncommitted writes of its connection

txnVars == <<pending>>

(***************************************************************************)
(* Poller state: KismetController polling the daemon's device list         *)
(***************************************************************************)
VARIABLES
    clock,              \* time.time(), in whole seconds
    kismetLast,         \* daemon: each device's last_time, 0 for never seen
    last_poll_time,     \* KismetController._last_poll_time, 0 for None
    pollPc,             \* position of the polling thread
    response,           \* devices returned by the request in flight
    pollFailed,         \* the request in flight ended in a transport error
    sinceSent,          \* last_time sent with the latest request, 0 omitted
    reqTime,            \* when the latest request was made
    okTime,             \* when the latest successful request was made
    emitted,            \* per device, the last_time the callbacks last saw
    polls               \* polls made

pollVars == <<clock, kismetLast, last_poll_time, pollPc, response, pollFailed,
              sinceSent, reqTime, okTime, emitted, polls>>

(***************************************************************************)
(* Fingerprint engine state                                                *)
(***************************************************************************)
VARIABLES
    auto_store,         \* FingerprintEngine.auto_store
    fingerprints,       \* _stats["wifi_fingerprints"] / ["bt_fingerprints"]
    processed           \* <<kind, mac>> of the calls made with auto-store on

engineVars == <<auto_store, fingerprints, processed>>

\* GPS logger (GPSLogger / MockGPSLogger)
VARIABLES
    gpsKind,            \* "none" before _init_gps, then "gpsd" or "mock"
    callbacks,          \* GPSLogger._callbacks, in registration order
    current_position,   \* _current_position: the latest sample
    samples,            \* samples produced by the polling task so far
    iter,               \* index of the callback loop's iterator, 0 = no loop
    owed,               \* callbacks subscribed throughout the latest sample
    got,                \* callbacks invoked with the latest sample
    position_history    \* _position_history, most recent last

gpsVars == <<gpsKind, callbacks, current_position, samples, iter, owed, got,
             position_history>>

\* GPS polling thread and its connection to gpsd
VARIABLES
    gpsTime,            \* seconds since the polling thread started
    reachable,          \* the GPS source accepts connections
    stream,             \* the gpsd connection: "ok" or "broken"
    lastFailure,        \* time of the latest failed request, -1 = none
    delivered,          \* samples fetched by the polling thread
    connects            \* connect() calls made by the polling thread

gpsLoopVars == <<gpsTime, reachable, stream, lastFailure, delivered, connects>>

\* GPS track: the orchestrator's _on_gps_update and the gps_track table
VARIABLES
    trackOwner,         \* thread that created the store's connection
    trackNow,           \* the clock, for datetime.utcnow()
    gps_track,          \* rows of gps_track, in insertion order
    gps_fixes,          \* _stats["gps_fixes"]
    fed                 \* the valid samples passed to _on_gps_update

trackVars == <<trackOwner, trackNow, gps_track, gps_fixes, fed>>

\* Power monitor (PowerMonitor._monitor_loop)
VARIABLES
    power_voltage,      \* PowerMonitor._current_voltage, centivolts
    pm_state,           \* PowerMonitor._power_state
    pm_samples,         \* samples taken by _monitor_loop
    pm_calls            \* invocations of each kind of callback so far

powerVars == <<power_voltage, pm_state, pm_samples, pm_calls>>

\* Upstream poller: parsed devices (KismetController._parse_device)
VARIABLES
    kdevices,           \* KismetController._devices, by MAC
    last_raw,           \* the raw record processed last
    last_emitted        \* the device handed to the callbacks last

parseVars == <<kdevices, last_raw, last_emitted>>

\* Wi-Fi fingerprinter (WiFiFingerprinter) and the engine query over it
VARIABLES
    probe_profiles,     \* WiFiFingerprinter._probe_profiles, by MAC
    fingerprint_cache,  \* WiFiFingerprinter._fingerprint_cache, by MAC
    groups              \* result of the latest correlate_randomized_macs()

wifiVars == <<probe_profiles, fingerprint_cache, groups>>

\* Channel hopper
VARIABLES
    hopper,             \* the ChannelHopper the orchestrator holds, or NoHopper
    velocity,           \* speed of the GPS logger's current position
    hop_op,             \* the Kismet operation the latest hopper call issued
    ticks               \* calls of update_adaptive_rate so far

hopVars == <<hopper, velocity, hop_op, ticks>>

\* Scan sessions
VARIABLES
    scan_sessions,      \* the scan_sessions table, by session_id
    session_call        \* the latest session call made on the store

sessVars == <<scan_sessions, session_call>>

\* One Database object shared by the threads of a scan
VARIABLES
    shConn,             \* Database._connection: creating thread, pending writes
    shPc,               \* per thread, the transaction it is in, 0 for none
    shOutcome,          \* how each transaction ended, in submission order
    shCommitted         \* the committed writes, in commit order

sharedVars == <<shConn, shPc, shOutcome, shCommitted>>

\* Fingerprint engine under its lock
VARIABLES
    engine_lock,        \* FingerprintEngine._lock: the thread holding it, or "none"
    engCall,            \* per thread, the engine call it is in and its local variables
    bt_cache,           \* BluetoothFingerprinter._fingerprint_cache, by MAC
    engCalls            \* engine calls made so far

lockVars == <<engine_lock, engCall, bt_cache, engCalls>>

\* Event state: new-device callbacks arriving while start() proceeds
VARIABLES
    evPc,               \* position of start() from _init_kismet on
    fingerprint_engine, \* ScanOrchestrator.fingerprint_engine is set
    kismet_running,     \* KismetController._running: the polling thread runs
    orch_stats,         \* ScanOrchestrator._stats: wifi_devices and bt_devices
    newDevices          \* new-device events emitted by the poller, in order

evVars == <<evPc, fingerprint_engine, kismet_running, orch_stats, newDevices>>

\* Shutdown state: stop() closing the store while the GPS thread still runs
VARIABLES
    store_connection,   \* Database._connection: "none", or the thread that created it
    stop_step,          \* position of stop() on the main thread
    gps_thread,         \* position of the GPS polling thread
    gps_logger_running, \* GPSLogger._running
    fix_count,          \* _stats["gps_fixes"] as counted by _on_gps_update
    rows_written,       \* gps_track rows committed by the GPS thread
    closed_by_stop,     \* stop() has executed database.close()
    written_after_close \* a row was committed after that close

closeVars == <<store_connection, stop_step, gps_thread, gps_logger_running,
              fix_count, rows_written, closed_by_stop, written_after_close>>

\* Cancellation state: stop() ending the long-running tasks
VARIABLES
    joinPc,             \* position of stop() on the calling thread
    task_alive,         \* per long-running task: its thread has not ended
    task_quit,          \* per task: the flag its loop tests tells it to end
    joined              \* tasks whose thread stop() has joined

joinVars == <<joinPc, task_alive, task_quit, joined>>

vars == <<orchVars, storeVars, txnVars, pollVars, engineVars, gpsVars,
    gpsLoopVars, trackVars, powerVars, parseVars, wifiVars, hopVars,
    sessVars, sharedVars, lockVars, evVars, closeVars, joinVars>>

\* What the orchestrator's steps, and what the store's insert / drain steps,
\* leave alone.
nonOrchVars == <<storeVars, txnVars, pollVars, engineVars, gpsVars,
    gpsLoopVars, trackVars, powerVars, parseVars, wifiVars, hopVars,
    sessVars, sharedVars, lockVars, evVars, closeVars, joinVars>>
nonStoreVars == <<orchVars, txnVars, pollVars, engineVars, gpsVars,
    gpsLoopVars, trackVars, powerVars, parseVars, wifiVars, hopVars,
    sessVars, sharedVars, lockVars, evVars, closeVars, joinVars>>
nonTxnVars == <<orchVars, pollVars, engineVars, gpsVars, gpsLoopVars,
    trackVars, powerVars, parseVars, wifiVars, hopVars, sessVars,
    sharedVars, lockVars, evVars, closeVars, joinVars>>
nonPollVars == <<orchVars, storeVars, txnVars, engineVars, gpsVars,
    gpsLoopVars, trackVars, powerVars, parseVars, wifiVars, hopVars,
    sessVars, sharedVars, lockVars, evVars, closeVars, joinVars>>
nonEngineVars == <<orchVars, txnVars, pollVars, gpsVars, gpsLoopVars,
    trackVars, powerVars, parseVars, wifiVars, hopVars, sessVars,
    sharedVars, lockVars, evVars, closeVars, joinVars>>
nonGpsVars == <<orchVars, storeVars, txnVars, pollVars, engineVars,
    gpsLoopVars, trackVars, powerVars, parseVars, wifiVars, hopVars,
    sessVars, sharedVars, lockVars, evVars, closeVars, joinVars>>
nonGpsLoopVars == <<orchVars, storeVars, txnVars, pollVars, engineVars,
    gpsVars, trackVars, powerVars, parseVars, wifiVars, hopVars, sessVars,
    sharedVars, lockVars, evVars, closeVars, joinVars>>
nonTrackVars == <<orchVars, storeVars, txnVars, pollVars, engineVars,
    gpsVars, gpsLoopVars, powerVars, parseVars, wifiVars, hopVars, sessVars,
    sharedVars, lockVars, evVars, closeVars, joinVars>>
nonPowerVars == <<orchVars, storeVars, txnVars, pollVars, engineVars,
    gpsVars, gpsLoopVars, trackVars, parseVars, wifiVars, hopVars, sessVars,
    sharedVars, lockVars, evVars, closeVars, joinVars>>
nonParseVars == <<orchVars, storeVars, txnVars, pollVars, engineVars,
    gpsVars, gpsLoopVars, trackVars, powerVars, wifiVars, hopVars, sessVars,
    sharedVars, lockVars, evVars, closeVars, joinVars>>
nonWifiVars == <<orchVars, storeVars, txnVars, pollVars, engineVars,
    gpsVars, gpsLoopVars, trackVars, powerVars, parseVars, hopVars,
    sessVars, sharedVars, lockVars, evVars, closeVars, joinVars>>
nonHopVars == <<orchVars, storeVars, txnVars, pollVars, engineVars, gpsVars,
    gpsLoopVars, trackVars, powerVars, parseVars, wifiVars, sessVars,
    sharedVars, lockVars, evVars, closeVars, joinVars>>
nonSessVars == <<orchVars, storeVars, txnVars, pollVars, engineVars,
    gpsVars, gpsLoopVars, trackVars, powerVars, parseVars, wifiVars,
    hopVars, sharedVars, lockVars, evVars, closeVars, joinVars>>
nonSharedVars == <<orchVars, storeVars, txnVars, pollVars, engineVars,
    gpsVars, gpsLoopVars, trackVars, powerVars, parseVars, wifiVars,
    hopVars, sessVars, lockVars, evVars, closeVars, joinVars>>
nonLockVars == <<orchVars, storeVars, txnVars, pollVars, engineVars,
    gpsVars, gpsLoopVars, trackVars, powerVars, parseVars, wifiVars,
    hopVars, sessVars, sharedVars, evVars, closeVars, joinVars>>

\* What the steps of an engine call, which change wifiVars and lockVars,
\* leave alone.
nonWifiLockVars == <<orchVars, storeVars, txnVars, pollVars, engineVars,
    gpsVars, gpsLoopVars, trackVars, powerVars, parseVars, hopVars,
    sessVars, sharedVars, evVars, closeVars, joinVars>>
nonEvVars == <<orchVars, storeVars, txnVars, pollVars, engineVars, gpsVars,
    gpsLoopVars, trackVars, powerVars, parseVars, wifiVars, hopVars,
    sessVars, sharedVars, lockVars, closeVars, joinVars>>
nonCloseVars == <<orchVars, storeVars, txnVars, pollVars, engineVars,
    gpsVars, gpsLoopVars, trackVars, powerVars, parseVars, wifiVars,
    hopVars, sessVars, sharedVars, lockVars, evVars, joinVars>>
nonJoinVars == <<orchVars, storeVars, txnVars, pollVars, engineVars,
    gpsVars, gpsLoopVars, trackVars, powerVars, parseVars, wifiVars,
    hopVars, sessVars, sharedVars, lockVars, evVars, closeVars>>

Macs == {"m1", "m2"}

\* PowerMonitor.__init__: no reading yet, the state is "unknown".
PowerInit ==
    /\ power_voltage = 0
    /\ pm_state = "unknown"
    /\ pm_samples = 0
    /\ pm_calls = [s \in {"warning", "critical", "shutdown"} |-> 0]

NoKismetDevice == [mac |-> "none"]

\* KismetController.__init__: no device known, none emitted.
ParseInit ==
    /\ kdevices = [m \in Macs |-> NoKismetDevice]
    /\ last_raw = NoKismetDevice
    /\ last_emitted = NoKismetDevice

\* MAC addresses as their first two hex digits and a serial number:
\* 02:..:01, FA:..:03 and A0:..:04.
WifiMacs == {<<0, 2, 1>>, <<15, 10, 3>>, <<10, 0, 4>>}

NoCaps == [ht_supported |-> FALSE]
NoProfile == [exists |-> FALSE, probed_ssids |-> {}, capabilities |-> NoCaps]
NoHash == [rates |-> <<-1>>]
NoGroups == [called |-> FALSE]

\* WiFiFingerprinter.__init__: empty profiles and cache.
WifiInit ==
    /\ probe_profiles = [m \in WifiMacs |-> NoProfile]
    /\ fingerprint_cache = [m \in WifiMacs |-> NoHash]
    /\ groups = NoGroups

NoHopper == [created |-> FALSE]
NoOp == [op |-> "none", rate8 |-> 0]

\* ScanOrchestrator.__init__: no channel hopper yet.
HopInit ==
    /\ hopper = NoHopper
    /\ velocity = [valid |-> FALSE, speed |-> 0]
    /\ hop_op = NoOp
    /\ ticks = 0

SessionIds == {"s1", "s2"}
NoSessionRow == [status |-> "none"]

\* The scan_sessions table right after initialize_schema().
SessInit ==
    /\ scan_sessions = [id \in SessionIds |-> NoSessionRow]
    /\ session_call = [op |-> "none", session_id |-> "none"]

\* The threads that use the orchestrator's Database: start() / stop(), the
\* GPS polling thread (_on_gps_update) and the Kismet polling thread.
StoreThreads == {"main", "gps", "poller"}

\* _init_database on the main thread: connect() and initialize_schema().
SharedInit ==
    /\ shConn = [owner |-> "main", pending |-> << >>]
    /\ shPc = [th \in StoreThreads |-> 0]
    /\ shOutcome = << >>
    /\ shCommitted = << >>

\* The threads that call into the engine (the Kismet poller's callbacks
\* and the capture parser's) and the MACs they report.
EngThreads == {"a", "b"}
EngMacs == {<<0, 2, 1>>, <<15, 10, 3>>}
NoCall == [pc |-> "idle"]

\* FingerprintEngine.__init__: the lock is free and no call is in progress.
LockInit ==
    /\ engine_lock = "none"
    /\ engCall = [th \in EngThreads |-> NoCall]
    /\ bt_cache = [m \in EngMacs |-> NoHash]
    /\ engCalls = 0

\* start() has created the session; no component is initialised yet.
EvInit ==
    /\ evPc = "init_kismet"
    /\ fingerprint_engine = FALSE
    /\ kismet_running = FALSE
    /\ orch_stats = [wifi_devices |-> 0, bt_devices |-> 0]
    /\ newDevices = <<>>

\* A running scan: the store connected by the main thread, GPS polling.
CloseInit ==
    /\ store_connection = "main"
    /\ stop_step = "scanning"
    /\ gps_thread = "loop"
    /\ gps_logger_running = TRUE
    /\ fix_count = 0
    /\ rows_written = 0
    /\ closed_by_stop = FALSE
    /\ written_after_close = FALSE

\* The long-running tasks: GPS polling, upstream poller, orchestrator main
\* loop, power monitor.
LongTasks == {"gps", "kismet", "main_loop", "power"}

\* An orchestrator before start(): no task runs.
JoinInit ==
    /\ joinPc = "start"
    /\ task_alive = [t \in LongTasks |-> FALSE]
    /\ task_quit = [t \in LongTasks |-> FALSE]
    /\ joined = {}

\* A store without connection and an empty gps_track table.
TrackInit ==
    /\ trackOwner = "none"
    /\ trackNow = 1
    /\ gps_track = << >>
    /\ gps_fixes = 0
    /\ fed = << >>

\* GPSLogger.start(): connected, the polling thread is about to run.
GpsLoopInit ==
    /\ gpsTime = 0
    /\ reachable = TRUE
    /\ stream = "ok"
    /\ lastFailure = -1
    /\ delivered = 0
    /\ connects = 0

\* _current_position = None
NoPosition == [valid |-> FALSE, timestamp |-> 0]

\* GPSLogger.__init__: no callback, no position.
GpsInit ==
    /\ gpsKind = "none"
    /\ callbacks = << >>
    /\ current_position = NoPosition
    /\ samples = 0
    /\ iter = 0
    /\ owed = {}
    /\ got = {}
    /\ position_history = << >>

\* FingerprintEngine(database, gps_logger, auto_store=True)
EngineInit ==
    /\ auto_store = TRUE
    /\ fingerprints = [k \in {"wifi", "bt"} |-> 0]
    /\ processed = {}

\* A KismetController that has been constructed and not yet polled.
PollInit ==
    /\ clock = 1
    /\ kismetLast = [m \in Macs |-> 0]
    /\ last_poll_time = 0
    /\ pollPc = "sleep"
    /\ response = {}
    /\ pollFailed = FALSE
    /\ sinceSent = 0
    /\ reqTime = 0
    /\ okTime = 0
    /\ emitted = [m \in Macs |-> 0]
    /\ polls = 0

Components == {"database", "gps", "kismet", "tshark", "engine", "power"}
NonCritical == {"gps", "kismet", "tshark", "power"}
Contexts == {"main", "signal", "loop", "power"}

\* The thread a stop() invocation context runs on: the signal handler runs
\* nested on the main thread.
Thread(c) == IF c \in {"main", "signal"} THEN "main" ELSE c

NoRow == [status |-> "none", ended |-> FALSE, counted |-> FALSE]

\* PowerMonitor thresholds, in centivolts.
VOLTAGE_WARNING == 350
VOLTAGE_CRITICAL == 330
VOLTAGE_SHUTDOWN == 310
Voltages == {310, 420}

\* Mutation of determine_state: the thresholds are exclusive.
determine_state_Strict(voltage) ==
    IF voltage < VOLTAGE_SHUTDOWN THEN "shutdown"
    ELSE IF voltage < VOLTAGE_CRITICAL THEN "critical"
    ELSE IF voltage < VOLTAGE_WARNING THEN "warning"
    ELSE "ok"

\* PowerMonitor._determine_state
determine_state(voltage) ==
    IF voltage <= VOLTAGE_SHUTDOWN THEN "shutdown"
    ELSE IF voltage <= VOLTAGE_CRITICAL THEN "critical"
    ELSE IF voltage <= VOLTAGE_WARNING THEN "warning"
    ELSE "ok"

NULL == "NULL"
Kinds == {"wifi", "bt"}

\* wifi_devices, bt_devices and fingerprint_signatures
Tables == Kinds \cup {"sig"}
Tasks == {"t1", "t2"}

\* insert_wifi_device / insert_bt_device: retries: int = 3
Retries == 3

NoDevice == [kind |-> "none"]

\* backup_dir holding no buffer file
NoFiles == [f \in {} |-> << >>]

\* Each task has constructed its Database and run initialize_schema(), which
\* leaves the connection open and both tables empty.
StoreInit ==
    /\ tables = [k \in Tables |-> <<>>]
    /\ bufFiles = NoFiles
    /\ now = 1
    /\ conn = [t \in Tasks |-> "open"]
    /\ pc = [t \in Tasks |-> "idle"]
    /\ cur = [t \in Tasks |-> NoDevice]
    /\ existing = [t \in Tasks |-> 0]
    /\ failed = [t \in Tasks |-> 0]
    /\ result = [t \in Tasks |-> "none"]
    /\ closedAtCall = [t \in Tasks |-> FALSE]
    /\ opsLeft = MaxOps
    /\ pending = [t \in Tasks |-> << >>]

OrchInit ==
    /\ mainPc \in {"start", "exit"}
    /\ mainRet = "none"
    /\ duration \in BOOLEAN
    /\ running = FALSE
    /\ active_orchestrator = FALSE
    /\ shutdown_event = FALSE
    /\ comp = [c \in Components |-> "none"]
    /\ connection = "none"
    /\ connOwner = "none"
    /\ session = FALSE
    /\ sessionRow = NoRow
    /\ stopPc = [c \in Contexts |-> "idle"]
    /\ loopPc = "off"
    /\ pmPc = "off"
    /\ pmRunning = FALSE
    /\ pmThread = FALSE
    /\ power_state = "unknown"
    /\ sigCount = 0
    /\ sigInStartup = FALSE
    /\ startResult = "none"
    /\ dbOutcome = "none"
    /\ initOk = {}
    /\ excInStart = FALSE
    /\ everRunning = FALSE
    /\ stopPasses = 0
    /\ updateCalls = 0
    /\ closeCalls = 0
    /\ restoreCalls = 0

Init == OrchInit
    /\ StoreInit /\ PollInit /\ EngineInit /\ GpsInit /\ GpsLoopInit
    /\ JoinInit /\ CloseInit /\ EvInit /\ LockInit /\ TrackInit /\ PowerInit
    /\ ParseInit /\ WifiInit /\ SharedInit /\ HopInit /\ SessInit

(***************************************************************************)
(* Helpers                                                                 *)
(***************************************************************************)
Alive == mainPc /= "terminated"

\* The interrupted main-thread code resumes only when the handler returned.
MainCanStep == Alive /\ stopPc["signal"] = "idle"

CtxCanStep(c) == Alive /\ (c = "main" => stopPc["signal"] = "idle")

\* sqlite3.connect() is called with its defaults: the connection may only
\* be used on the thread that created it, any other use raises
\* sqlite3.ProgrammingError.
SameThread(t) == connection = "open" => connOwner = t

\* Mutation of OnInitFailure: a GPS failure aborts start() as well.
OnInitFailure_GpsCritical(c) ==
    IF c \in {"database", "gps"} THEN "abort" ELSE "continue"

\* start(): what the failure of a component's initialisation does.
OnInitFailure(c) == IF c = "database" THEN "abort" ELSE "continue"

\* start() has been entered and line 189 (_running = True) is still ahead.
StartupPcs == {"init_database", "create_session", "init_gps", "init_kismet",
               "init_tshark", "init_fingerprinting", "init_power_monitor",
               "set_running"}

StartTryPcs == {"init_database", "create_session", "init_gps", "init_kismet",
                "init_tshark", "init_fingerprinting", "init_power_monitor",
                "set_running", "start_loop", "wait"}

\* The main thread calls self.stop() from call site `site`.
CallStop(site) ==
    /\ mainPc' = "in_stop"
    /\ mainRet' = site
    /\ stopPc' = [stopPc EXCEPT !["main"] = "check"]

(***************************************************************************)
(* ScanOrchestrator.stop(), one step per statement group, per context      *)
(***************************************************************************)
StopCheck(c) ==
    /\ CtxCanStep(c)
    /\ stopPc[c] = "check"
    /\ stopPc' = [stopPc EXCEPT ![c] = IF running THEN "set" ELSE "returned"]
    /\ UNCHANGED <<mainPc, mainRet, duration, running, active_orchestrator,
                   shutdown_event, comp, connection, connOwner, session,
                   sessionRow, loopPc, pmPc, pmRunning, pmThread, power_state,
                   sigCount, sigInStartup, startResult, dbOutcome, initOk,
                   excInStart, everRunning, stopPasses, updateCalls,
                   closeCalls, restoreCalls, nonOrchVars>>

\* Mutation of StopSet: the shutdown event is not set.
StopSet_NoEvent(c) ==
    /\ CtxCanStep(c)
    /\ stopPc[c] = "set"
    /\ running' = FALSE
    /\ stopPasses' = stopPasses + 1
    /\ stopPc' = [stopPc EXCEPT ![c] = "power"]
    /\ UNCHANGED <<mainPc, mainRet, duration, active_orchestrator, comp,
                   shutdown_event, connection, connOwner, session, sessionRow,
                   loopPc, pmPc, pmRunning, pmThread, power_state, sigCount,
                   sigInStartup, startResult, dbOutcome, initOk, excInStart,
                   everRunning, updateCalls, closeCalls, restoreCalls,
                   nonOrchVars>>

StopSet(c) ==
    /\ CtxCanStep(c)
    /\ stopPc[c] = "set"
    /\ running' = FALSE
    /\ shutdown_event' = TRUE
    /\ stopPasses' = stopPasses + 1
    /\ stopPc' = [stopPc EXCEPT ![c] = "power"]
    /\ UNCHANGED <<mainPc, mainRet, duration, active_orchestrator, comp,
                   connection, connOwner, session, sessionRow, loopPc, pmPc,
                   pmRunning, pmThread, power_state, sigCount, sigInStartup,
                   startResult, dbOutcome, initOk, excInStart, everRunning,
                   updateCalls, closeCalls, restoreCalls, nonOrchVars>>

\* PowerMonitor.stop(): joining the thread one runs on raises RuntimeError.
StopPower(c) ==
    /\ CtxCanStep(c)
    /\ stopPc[c] = "power"
    /\ IF comp["power"] = "none"
       THEN /\ stopPc' = [stopPc EXCEPT ![c] = "tshark"]
            /\ UNCHANGED <<pmRunning, pmThread, comp, nonOrchVars>>
       ELSE /\ pmRunning' = FALSE
            /\ IF pmThread /\ Thread(c) = "power"
               THEN /\ stopPc' = [stopPc EXCEPT ![c] = "raised"]
                    /\ UNCHANGED <<pmThread, comp, nonOrchVars>>
               ELSE /\ pmThread' = FALSE
                    /\ comp' = [comp EXCEPT !["power"] = "stopped"]
                    /\ stopPc' = [stopPc EXCEPT ![c] = "tshark"]
    /\ UNCHANGED <<mainPc, mainRet, duration, running, active_orchestrator,
                   shutdown_event, connection, connOwner, session, sessionRow,
                   loopPc, pmPc, power_state, sigCount, sigInStartup,
                   startResult, dbOutcome, initOk, excInStart, everRunning,
                   stopPasses, updateCalls, closeCalls, restoreCalls,
                   nonOrchVars>>

StopComponent(c, name, next) ==
    /\ CtxCanStep(c)
    /\ stopPc[c] = name
    /\ comp' = [comp EXCEPT ![name] =
                   IF comp[name] = "started" THEN "stopped" ELSE comp[name]]
    /\ stopPc' = [stopPc EXCEPT ![c] = next]
    /\ UNCHANGED <<mainPc, mainRet, duration, running, active_orchestrator,
                   shutdown_event, connection, connOwner, session, sessionRow,
                   loopPc, pmPc, pmRunning, pmThread, power_state, sigCount,
                   sigInStartup, startResult, dbOutcome, initOk, excInStart,
                   everRunning, stopPasses, updateCalls, closeCalls,
                   restoreCalls, nonOrchVars>>

\* Mutation of StopTshark: stop() goes from the capture to the GPS logger.
StopTshark_SkipsPoller(c) == StopComponent(c, "tshark", "gps")

StopTshark(c) == StopComponent(c, "tshark", "kismet")
StopKismet(c) == StopComponent(c, "kismet", "gps")
StopGps(c) == StopComponent(c, "gps", "session")

\* update_session(): transaction() -> connect() reopens a closed connection.
StopSession(c) ==
    /\ CtxCanStep(c)
    /\ stopPc[c] = "session"
    /\ IF session /\ comp["database"] /= "none"
       THEN IF SameThread(Thread(c))
            THEN /\ connection' = "open"
                 /\ connOwner' = Thread(c)
                 /\ sessionRow' = IF sessionRow.status = "none" THEN sessionRow
                                  ELSE [status |-> "stopped", ended |-> TRUE,
                                        counted |-> TRUE]
                 /\ updateCalls' = updateCalls + 1
                 /\ stopPc' = [stopPc EXCEPT ![c] = "flush"]
            ELSE /\ stopPc' = [stopPc EXCEPT ![c] = "raised"]
                 /\ UNCHANGED <<connection, connOwner, sessionRow, updateCalls>>
       ELSE /\ stopPc' = [stopPc EXCEPT ![c] = "flush"]
            /\ UNCHANGED <<connection, connOwner, sessionRow, updateCalls>>
    /\ UNCHANGED <<mainPc, mainRet, duration, running, active_orchestrator,
                   shutdown_event, comp, session, loopPc, pmPc, pmRunning,
                   pmThread, power_state, sigCount, sigInStartup, startResult,
                   dbOutcome, initOk, excInStart, everRunning, stopPasses,
                   closeCalls, restoreCalls, nonOrchVars>>

\* flush_buffer(): commits on the open connection, if any.
StopFlush(c) ==
    /\ CtxCanStep(c)
    /\ stopPc[c] = "flush"
    /\ stopPc' = [stopPc EXCEPT ![c] =
                    IF comp["database"] = "none" THEN "restore"
                    ELSE IF SameThread(Thread(c)) THEN "close" ELSE "raised"]
    /\ UNCHANGED <<mainPc, mainRet, duration, running, active_orchestrator,
                   shutdown_event, comp, connection, connOwner, session,
                   sessionRow, loopPc, pmPc, pmRunning, pmThread, power_state,
                   sigCount, sigInStartup, startResult, dbOutcome, initOk,
                   excInStart, everRunning, stopPasses, updateCalls,
                   closeCalls, restoreCalls, nonOrchVars>>

StopClose(c) ==
    /\ CtxCanStep(c)
    /\ stopPc[c] = "close"
    /\ IF connection = "none"
       THEN /\ stopPc' = [stopPc EXCEPT ![c] = "restore"]
            /\ UNCHANGED <<connection, connOwner, closeCalls, nonOrchVars>>
       ELSE IF SameThread(Thread(c))
       THEN /\ connection' = "none"
            /\ connOwner' = "none"
            /\ closeCalls' = closeCalls + 1
            /\ stopPc' = [stopPc EXCEPT ![c] = "restore"]
       ELSE /\ stopPc' = [stopPc EXCEPT ![c] = "raised"]
            /\ UNCHANGED <<connection, connOwner, closeCalls, nonOrchVars>>
    /\ UNCHANGED <<mainPc, mainRet, duration, running, active_orchestrator,
                   shutdown_event, comp, session, sessionRow, loopPc, pmPc,
                   pmRunning, pmThread, power_state, sigCount, sigInStartup,
                   startResult, dbOutcome, initOk, excInStart, everRunning,
                   stopPasses, updateCalls, restoreCalls, nonOrchVars>>

StopRestore(c) ==
    /\ CtxCanStep(c)
    /\ stopPc[c] = "restore"
    /\ restoreCalls' = restoreCalls + 1
    /\ stopPc' = [stopPc EXCEPT ![c] = "clear"]
    /\ UNCHANGED <<mainPc, mainRet, duration, running, active_orchestrator,
                   shutdown_event, comp, connection, connOwner, session,
                   sessionRow, loopPc, pmPc, pmRunning, pmThread, power_state,
                   sigCount, sigInStartup, startResult, dbOutcome, initOk,
                   excInStart, everRunning, stopPasses, updateCalls,
                   closeCalls, nonOrchVars>>

StopClear(c) ==
    /\ CtxCanStep(c)
    /\ stopPc[c] = "clear"
    /\ active_orchestrator' = FALSE
    /\ stopPc' = [stopPc EXCEPT ![c] = "returned"]
    /\ UNCHANGED <<mainPc, mainRet, duration, running, shutdown_event, comp,
                   connection, connOwner, session, sessionRow, loopPc, pmPc,
                   pmRunning, pmThread, power_state, sigCount, sigInStartup,
                   startResult, dbOutcome, initOk, excInStart, everRunning,
                   stopPasses, updateCalls, closeCalls, restoreCalls,
                   nonOrchVars>>

(***************************************************************************)
(* Main thread: main(), ScanOrchestrator.start(), _atexit_cleanup          *)
(***************************************************************************)
StartCheck ==
    /\ MainCanStep
    /\ mainPc = "start"
    /\ IF running
       THEN /\ startResult' = "false"
            /\ mainPc' = "start_returned"
            /\ UNCHANGED active_orchestrator
       ELSE /\ active_orchestrator' = TRUE
            /\ mainPc' = "init_database"
            /\ UNCHANGED startResult
    /\ UNCHANGED <<mainRet, duration, running, shutdown_event, comp,
                   connection, connOwner, session, sessionRow, stopPc, loopPc,
                   pmPc, pmRunning, pmThread, power_state, sigCount,
                   sigInStartup, dbOutcome, initOk, excInStart, everRunning,
                   stopPasses, updateCalls, closeCalls, restoreCalls,
                   nonOrchVars>>

\* _init_database(): "ctor" - no Database object; "connect" - the object
\* exists, connect() failed; "schema" - connected, executescript failed.
InitDatabase ==
    /\ MainCanStep
    /\ mainPc = "init_database"
    /\ \E o \in {"ok", "ctor", "connect", "schema"} :
          /\ dbOutcome' = o
          /\ comp' = [comp EXCEPT !["database"] =
                         IF o = "ok" THEN "started"
                         ELSE IF o = "ctor" THEN "none" ELSE "failed"]
          /\ connection' = IF o \in {"ok", "schema"} THEN "open" ELSE "none"
          /\ connOwner' = IF o \in {"ok", "schema"} THEN "main" ELSE "none"
          /\ initOk' = IF o = "ok" THEN initOk \cup {"database"} ELSE initOk
          /\ IF o /= "ok" /\ OnInitFailure("database") = "abort"
             THEN /\ startResult' = "false"
                  /\ mainPc' = "start_returned"
             ELSE /\ mainPc' = "create_session"
                  /\ UNCHANGED startResult
    /\ UNCHANGED <<mainRet, duration, running, active_orchestrator,
                   shutdown_event, session, sessionRow, stopPc, loopPc, pmPc,
                   pmRunning, pmThread, power_state, sigCount, sigInStartup,
                   excInStart, everRunning, stopPasses, updateCalls,
                   closeCalls, restoreCalls, nonOrchVars>>

\* self._session is assigned before create_session() runs its transaction.
CreateSession ==
    /\ MainCanStep
    /\ mainPc = "create_session"
    /\ session' = TRUE
    /\ \E ok \in BOOLEAN :
          IF ok /\ dbOutcome = "ok" /\ connection = "open" /\ connOwner = "main"
          THEN /\ sessionRow' = [status |-> "running", ended |-> FALSE,
                                 counted |-> FALSE]
               /\ mainPc' = "init_gps"
               /\ UNCHANGED <<mainRet, stopPc, excInStart, nonOrchVars>>
          ELSE /\ excInStart' = TRUE
               /\ CallStop("start_except")
               /\ UNCHANGED sessionRow
    /\ UNCHANGED <<duration, running, active_orchestrator, shutdown_event,
                   comp, connection, connOwner, loopPc, pmPc, pmRunning,
                   pmThread, power_state, sigCount, sigInStartup, startResult,
                   dbOutcome, initOk, everRunning, stopPasses, updateCalls,
                   closeCalls, restoreCalls, nonOrchVars>>

\* A non-critical _init_*(): on failure the component is not started.
InitNonCritical(c, here, next, failStates) ==
    /\ MainCanStep
    /\ mainPc = here
    /\ \E ok \in BOOLEAN :
          IF ok
          THEN /\ comp' = [comp EXCEPT ![c] = "started"]
               /\ initOk' = initOk \cup {c}
               /\ mainPc' = next
               /\ UNCHANGED startResult
          ELSE /\ \E st \in failStates : comp' = [comp EXCEPT ![c] = st]
               /\ UNCHANGED initOk
               /\ IF OnInitFailure(c) = "abort"
                  THEN /\ startResult' = "false"
                       /\ mainPc' = "start_returned"
                  ELSE /\ mainPc' = next
                       /\ UNCHANGED startResult
    /\ UNCHANGED <<mainRet, duration, running, active_orchestrator,
                   shutdown_event, connection, connOwner, session, sessionRow,
                   stopPc, loopPc, sigCount, sigInStartup, dbOutcome,
                   excInStart, everRunning, stopPasses, updateCalls,
                   closeCalls, restoreCalls, nonOrchVars>>

InitGps ==
    /\ InitNonCritical("gps", "init_gps", "init_kismet", {"none"})
    /\ UNCHANGED <<pmPc, pmRunning, pmThread, power_state, nonOrchVars>>

InitKismet ==
    /\ InitNonCritical("kismet", "init_kismet", "init_tshark", {"none"})
    /\ UNCHANGED <<pmPc, pmRunning, pmThread, power_state, nonOrchVars>>

InitTshark ==
    /\ InitNonCritical("tshark", "init_tshark", "init_fingerprinting", {"none"})
    /\ UNCHANGED <<pmPc, pmRunning, pmThread, power_state, nonOrchVars>>

InitFingerprinting ==
    /\ MainCanStep
    /\ mainPc = "init_fingerprinting"
    /\ comp' = [comp EXCEPT !["engine"] = "started"]
    /\ initOk' = initOk \cup {"engine"}
    /\ mainPc' = "init_power_monitor"
    /\ UNCHANGED <<mainRet, duration, running, active_orchestrator,
                   shutdown_event, connection, connOwner, session, sessionRow,
                   stopPc, loopPc, pmPc, pmRunning, pmThread, power_state,
                   sigCount, sigInStartup, startResult, dbOutcome, excInStart,
                   everRunning, stopPasses, updateCalls, closeCalls,
                   restoreCalls, nonOrchVars>>

\* PowerMonitor.start() sets _running and starts the monitor thread.
InitPowerMonitor ==
    /\ InitNonCritical("power", "init_power_monitor", "set_running", {"none"})
    /\ IF comp'["power"] = "started"
       THEN /\ pmRunning' = TRUE
            /\ pmThread' = TRUE
            /\ pmPc' = "poll"
       ELSE UNCHANGED <<pmRunning, pmThread, pmPc, nonOrchVars>>
    /\ UNCHANGED power_state

SetRunning ==
    /\ MainCanStep
    /\ mainPc = "set_running"
    /\ running' = TRUE
    /\ everRunning' = TRUE
    /\ mainPc' = "start_loop"
    /\ UNCHANGED <<mainRet, duration, active_orchestrator, shutdown_event,
                   comp, connection, connOwner, session, sessionRow, stopPc,
                   loopPc, pmPc, pmRunning, pmThread, power_state, sigCount,
                   sigInStartup, startResult, dbOutcome, initOk, excInStart,
                   stopPasses, updateCalls, closeCalls, restoreCalls,
                   nonOrchVars>>

StartMainLoop ==
    /\ MainCanStep
    /\ mainPc = "start_loop"
    /\ loopPc' = "iter"
    /\ mainPc' = "wait"
    /\ UNCHANGED <<mainRet, duration, running, active_orchestrator,
                   shutdown_event, comp, connection, connOwner, session,
                   sessionRow, stopPc, pmPc, pmRunning, pmThread, power_state,
                   sigCount, sigInStartup, startResult, dbOutcome, initOk,
                   excInStart, everRunning, stopPasses, updateCalls,
                   closeCalls, restoreCalls, nonOrchVars>>

\* Lines 198-204: a bounded run waits on the shutdown event (the wait ends
\* by the event or by the timeout) and stops the scan if it still runs.
Wait ==
    /\ MainCanStep
    /\ mainPc = "wait"
    /\ IF duration /\ running
       THEN /\ CallStop("start_duration")
            /\ UNCHANGED startResult
       ELSE /\ startResult' = "true"
            /\ mainPc' = "start_returned"
            /\ UNCHANGED <<mainRet, stopPc, nonOrchVars>>
    /\ UNCHANGED <<duration, running, active_orchestrator, shutdown_event,
                   comp, connection, connOwner, session, sessionRow, loopPc,
                   pmPc, pmRunning, pmThread, power_state, sigCount,
                   sigInStartup, dbOutcome, initOk, excInStart, everRunning,
                   stopPasses, updateCalls, closeCalls, restoreCalls,
                   nonOrchVars>>

\* main(): without a duration the caller sleeps while _running is set.
MainWait ==
    /\ MainCanStep
    /\ mainPc = "start_returned"
    /\ duration \/ ~running
    /\ mainPc' = "finally"
    /\ UNCHANGED <<mainRet, duration, running, active_orchestrator,
                   shutdown_event, comp, connection, connOwner, session,
                   sessionRow, stopPc, loopPc, pmPc, pmRunning, pmThread,
                   power_state, sigCount, sigInStartup, startResult,
                   dbOutcome, initOk, excInStart, everRunning, stopPasses,
                   updateCalls, closeCalls, restoreCalls, nonOrchVars>>

Finally ==
    /\ MainCanStep
    /\ mainPc = "finally"
    /\ CallStop("finally")
    /\ UNCHANGED <<duration, running, active_orchestrator, shutdown_event,
                   comp, connection, connOwner, session, sessionRow, loopPc,
                   pmPc, pmRunning, pmThread, power_state, sigCount,
                   sigInStartup, startResult, dbOutcome, initOk, excInStart,
                   everRunning, stopPasses, updateCalls, closeCalls,
                   restoreCalls, nonOrchVars>>

\* _atexit_cleanup(): stop() when the global is set, else a bare restore.
AtExit ==
    /\ MainCanStep
    /\ mainPc = "exit"
    /\ IF active_orchestrator
       THEN /\ CallStop("atexit")
            /\ UNCHANGED restoreCalls
       ELSE /\ restoreCalls' = restoreCalls + 1
            /\ mainPc' = "terminated"
            /\ UNCHANGED <<mainRet, stopPc, nonOrchVars>>
    /\ UNCHANGED <<duration, running, active_orchestrator, shutdown_event,
                   comp, connection, connOwner, session, sessionRow, loopPc,
                   pmPc, pmRunning, pmThread, power_state, sigCount,
                   sigInStartup, startResult, dbOutcome, initOk, excInStart,
                   everRunning, stopPasses, updateCalls, closeCalls,
                   nonOrchVars>>

\* The main thread's stop() call returns (or raises) to its call site.
MainStopReturn ==
    /\ MainCanStep
    /\ mainPc = "in_stop"
    /\ stopPc["main"] \in {"returned", "raised"}
    /\ LET raised == stopPc["main"] = "raised" IN
       CASE mainRet = "start_duration" /\ ~raised ->
               /\ startResult' = "true"
               /\ mainPc' = "start_returned"
               /\ mainRet' = "none"
               /\ stopPc' = [stopPc EXCEPT !["main"] = "idle"]
               /\ UNCHANGED excInStart
         [] mainRet = "start_duration" /\ raised ->
               /\ excInStart' = TRUE
               /\ CallStop("start_except")
               /\ UNCHANGED startResult
         [] mainRet = "start_except" /\ ~raised ->
               /\ startResult' = "false"
               /\ mainPc' = "start_returned"
               /\ mainRet' = "none"
               /\ stopPc' = [stopPc EXCEPT !["main"] = "idle"]
               /\ UNCHANGED excInStart
         [] mainRet = "start_except" /\ raised ->
               /\ startResult' = "raised"
               /\ CallStop("finally")
               /\ UNCHANGED excInStart
         [] mainRet = "finally" ->
               /\ mainPc' = "exit"
               /\ mainRet' = "none"
               /\ stopPc' = [stopPc EXCEPT !["main"] = "idle"]
               /\ UNCHANGED <<startResult, excInStart, nonOrchVars>>
         [] mainRet = "atexit" ->
               /\ mainPc' = "terminated"
               /\ mainRet' = "none"
               /\ stopPc' = [stopPc EXCEPT !["main"] = "idle"]
               /\ UNCHANGED <<startResult, excInStart, nonOrchVars>>
    /\ UNCHANGED <<duration, running, active_orchestrator, shutdown_event,
                   comp, connection, connOwner, session, sessionRow, loopPc,
                   pmPc, pmRunning, pmThread, power_state, sigCount,
                   sigInStartup, dbOutcome, initOk, everRunning, stopPasses,
                   updateCalls, closeCalls, restoreCalls, nonOrchVars>>

(***************************************************************************)
(* _signal_handler: runs stop() nested on the main thread                  *)
(***************************************************************************)
Signal ==
    /\ Alive
    /\ sigCount < MaxSignals
    /\ stopPc["signal"] = "idle"
    /\ sigCount' = sigCount + 1
    /\ sigInStartup' = (sigInStartup \/ mainPc \in StartupPcs)
    /\ stopPc' = [stopPc EXCEPT !["signal"] = "check"]
    /\ UNCHANGED <<mainPc, mainRet, duration, running, active_orchestrator,
                   shutdown_event, comp, connection, connOwner, session,
                   sessionRow, loopPc, pmPc, pmRunning, pmThread, power_state,
                   startResult, dbOutcome, initOk, excInStart, everRunning,
                   stopPasses, updateCalls, closeCalls, restoreCalls,
                   nonOrchVars>>

\* The handler returns into the interrupted code; an exception leaving the
\* handler unwinds the interrupted code to its nearest handler.
SignalReturn ==
    /\ Alive
    /\ stopPc["signal"] \in {"returned", "raised"}
    /\ IF stopPc["signal"] = "returned"
       THEN /\ stopPc' = [stopPc EXCEPT !["signal"] = "idle"]
            /\ UNCHANGED <<mainPc, mainRet, excInStart, nonOrchVars>>
       ELSE CASE mainPc = "in_stop" ->
                    /\ stopPc' = [stopPc EXCEPT !["signal"] = "idle",
                                                !["main"] = "raised"]
                    /\ UNCHANGED <<mainPc, mainRet, excInStart, nonOrchVars>>
              [] mainPc \in StartTryPcs ->
                    /\ excInStart' = TRUE
                    /\ mainPc' = "in_stop"
                    /\ mainRet' = "start_except"
                    /\ stopPc' = [stopPc EXCEPT !["signal"] = "idle",
                                                !["main"] = "check"]
              [] mainPc \in {"start", "start_returned"} ->
                    /\ mainPc' = "in_stop"
                    /\ mainRet' = "finally"
                    /\ stopPc' = [stopPc EXCEPT !["signal"] = "idle",
                                                !["main"] = "check"]
                    /\ UNCHANGED excInStart
              [] mainPc \in {"finally", "exit"} ->
                    /\ mainPc' = "exit"
                    /\ stopPc' = [stopPc EXCEPT !["signal"] = "idle"]
                    /\ UNCHANGED <<mainRet, excInStart, nonOrchVars>>
    /\ UNCHANGED <<duration, running, active_orchestrator, shutdown_event,
                   comp, connection, connOwner, session, sessionRow, loopPc,
                   pmPc, pmRunning, pmThread, power_state, sigCount,
                   sigInStartup, startResult, dbOutcome, initOk, everRunning,
                   stopPasses, updateCalls, closeCalls, restoreCalls,
                   nonOrchVars>>

(***************************************************************************)
(* _main_loop thread                                                       *)
(***************************************************************************)
\* One iteration that changes state: the loop ends when _running is clear,
\* and calls stop() when the power monitor reports the shutdown state.
MainLoop ==
    /\ Alive
    /\ loopPc = "iter"
    /\ IF ~running
       THEN /\ loopPc' = "exited"
            /\ UNCHANGED stopPc
       ELSE /\ comp["power"] /= "none"
            /\ power_state = "shutdown"
            /\ loopPc' = "in_stop"
            /\ stopPc' = [stopPc EXCEPT !["loop"] = "check"]
    /\ UNCHANGED <<mainPc, mainRet, duration, running, active_orchestrator,
                   shutdown_event, comp, connection, connOwner, session,
                   sessionRow, pmPc, pmRunning, pmThread, power_state,
                   sigCount, sigInStartup, startResult, dbOutcome, initOk,
                   excInStart, everRunning, stopPasses, updateCalls,
                   closeCalls, restoreCalls, nonOrchVars>>

\* stop() returned: break.  stop() raised: logged, the loop sleeps and then
\* re-tests _running.
MainLoopStopReturn ==
    /\ Alive
    /\ loopPc = "in_stop"
    /\ stopPc["loop"] \in {"returned", "raised"}
    /\ loopPc' = IF stopPc["loop"] = "returned" THEN "exited" ELSE "iter"
    /\ stopPc' = [stopPc EXCEPT !["loop"] = "idle"]
    /\ UNCHANGED <<mainPc, mainRet, duration, running, active_orchestrator,
                   shutdown_event, comp, connection, connOwner, session,
                   sessionRow, pmPc, pmRunning, pmThread, power_state,
                   sigCount, sigInStartup, startResult, dbOutcome, initOk,
                   excInStart, everRunning, stopPasses, updateCalls,
                   closeCalls, restoreCalls, nonOrchVars>>

(***************************************************************************)
(* PowerMonitor._monitor_loop thread                                       *)
(***************************************************************************)
\* One sample: the shutdown callbacks (_on_power_shutdown -> stop()) run on
\* every sample in the shutdown state.  The warning callback only logs and
\* the critical callback's flush_buffer() changes no modelled state.
MonitorLoop ==
    /\ Alive
    /\ pmPc = "poll"
    /\ IF ~pmRunning
       THEN /\ pmPc' = "exited"
            /\ UNCHANGED <<power_state, stopPc, nonOrchVars>>
       ELSE \E v \in Voltages :
               /\ power_state' = determine_state(v)
               /\ IF determine_state(v) = "shutdown"
                  THEN /\ pmPc' = "callback"
                       /\ stopPc' = [stopPc EXCEPT !["power"] = "check"]
                  ELSE UNCHANGED <<pmPc, stopPc, nonOrchVars>>
    /\ UNCHANGED <<mainPc, mainRet, duration, running, active_orchestrator,
                   shutdown_event, comp, connection, connOwner, session,
                   sessionRow, loopPc, pmRunning, pmThread, sigCount,
                   sigInStartup, startResult, dbOutcome, initOk, excInStart,
                   everRunning, stopPasses, updateCalls, closeCalls,
                   restoreCalls, nonOrchVars>>

\* The callback returned, or its exception was caught and logged.
MonitorCallbackReturn ==
    /\ Alive
    /\ pmPc = "callback"
    /\ stopPc["power"] \in {"returned", "raised"}
    /\ pmPc' = "poll"
    /\ stopPc' = [stopPc EXCEPT !["power"] = "idle"]
    /\ UNCHANGED <<mainPc, mainRet, duration, running, active_orchestrator,
                   shutdown_event, comp, connection, connOwner, session,
                   sessionRow, loopPc, pmRunning, pmThread, power_state,
                   sigCount, sigInStartup, startResult, dbOutcome, initOk,
                   excInStart, everRunning, stopPasses, updateCalls,
                   closeCalls, restoreCalls, nonOrchVars>>

StopStep == \E c \in Contexts :
               \/ StopCheck(c) \/ StopSet(c) \/ StopPower(c) \/ StopTshark(c)
               \/ StopKismet(c) \/ StopGps(c) \/ StopSession(c)
               \/ StopFlush(c) \/ StopClose(c) \/ StopRestore(c)
               \/ StopClear(c)

Next ==
    \/ StartCheck \/ InitDatabase \/ CreateSession \/ InitGps \/ InitKismet
    \/ InitTshark \/ InitFingerprinting \/ InitPowerMonitor \/ SetRunning
    \/ StartMainLoop \/ Wait \/ MainWait \/ Finally \/ AtExit
    \/ MainStopReturn \/ Signal \/ SignalReturn \/ MainLoop
    \/ MainLoopStopReturn \/ MonitorLoop \/ MonitorCallbackReturn
    \/ StopStep

Spec == Init /\ [][Next]_vars

(***************************************************************************)
(* Orchestrator properties                                                 *)
(***************************************************************************)
\* The process has exited and no stop() invocation was cut short by it.
Quiescent == mainPc = "terminated" /\ \A c \in Contexts : stopPc[c] = "idle"

\* C1: on every shutdown path of a started scan (caller's stop(), signal,
\* power-monitor shutdown callback, exception inside start()) the
\* orchestrator has invoked restore_managed_mode by the time the process
\* has gone through its shutdown.
C1_RestoreOnEveryShutdownPath ==
    (Quiescent /\ dbOutcome = "ok") => restoreCalls >= 1

\* C2: a scan that was started ends with the store closed and the session
\* row updated to 'stopped' with end_time and the final device counts.
C2_ScanEndsClosedAndStopped ==
    (Quiescent /\ everRunning) =>
        /\ connection = "none"
        /\ sessionRow = [status |-> "stopped", ended |-> TRUE, counted |-> TRUE]

\* C3: stop() is idempotent under repeated and concurrent calls: the
\* shutdown sequence is performed at most once, so the session row is
\* updated at most once and the store is closed at most once.
C3_StopSequenceOnce ==
    /\ updateCalls <= 1
    /\ closeCalls <= 1

\* C4: a signal delivered after start() was called, also while start() is
\* still bringing components up, leaves the orchestrator stopped: once the
\* handler has returned and start() has returned, _running is clear.
C4_SignalDuringStartupStops ==
    (sigInStartup /\ stopPc["signal"] = "idle" /\ startResult = "true")
        => ~running

\* C5: when the exit hook has run and the orchestrator never reached the
\* running state, the interface restore has been attempted.
C5_ExitHookRestoresWhenNeverRunning ==
    (mainPc = "terminated" /\ ~everRunning) => restoreCalls >= 1

\* C6: a failed store initialisation makes start() report failure with
\* nothing else brought up; no other component's failure does: start()
\* then reaches line 189 with every component whose initialisation
\* succeeded started, and reports failure only after a store failure or an
\* exception.
C6_StartOutcome ==
    /\ [](startResult /= "none" /\ dbOutcome \notin {"ok", "none"}
            => /\ startResult = "false"
               /\ ~everRunning
               /\ \A c \in Components \ {"database"} : comp[c] = "none")
    /\ [](startResult = "false" => dbOutcome /= "ok" \/ excInStart)
    /\ [][mainPc = "set_running" /\ mainPc' = "start_loop"
            => /\ running'
               /\ {"database", "engine"} \subseteq initOk'
               /\ \A c \in Components :
                     comp'[c] = IF c \in initOk' THEN "started"
                                ELSE "none"]_vars

\* C6 witness: start() completed although the GPS failed to initialise,
\* with the poller running.
C6_Witness ==
    /\ startResult = "true"
    /\ running
    /\ comp["gps"] = "none"
    /\ comp["kismet"] = "started"

(***************************************************************************)
(* Store: device records, their serialized form and the two tables         *)
(***************************************************************************)
Keys == {"k1", "k2"}
Names == {NULL}
Signals == {-70}

\* A WiFiDevice / BTDevice with every field the upsert statements read:
\* address stands for bssid / mac_address, name for essid / device_name,
\* signal for signal_dbm / rssi, gps for the four gps_* columns.  The type is
\* an enum member and the timestamps are datetimes.
Observation(kind, key, address, name, hash, signal, packets, gps, ts) ==
    [kind |-> kind, session_id |-> "s1", device_key |-> key,
     address |-> address, name |-> name, fingerprint_hash |-> hash,
     signal |-> signal, packets_total |-> packets, gps |-> gps,
     device_type |-> <<"enum", "unknown">>,
     first_seen |-> <<"datetime", ts>>, last_seen |-> <<"datetime", ts>>]

\* Dataclass defaults: packets_total = 0, gps_* = None, fingerprint_hash =
\* None.
NoGps == "NULL"

\* A device as a writer task submits it: the defaults everywhere else, the
\* timestamps taken at construction.
Device(kind, key, name, signal, ts) ==
    Observation(kind, key, "aa", name, NULL, signal, 0, NoGps, ts)

\* enum.value and datetime.isoformat(): both yield a str.
EnumValue(e) == <<"str", e[2]>>
Isoformat(dt) == <<"str", dt[2]>>

\* to_dict(): the record with its enum and datetimes turned into strings.
to_dict(d) ==
    [d EXCEPT !.device_type = EnumValue(@), !.first_seen = Isoformat(@),
              !.last_seen = Isoformat(@)]

\* WiFiDevice(**data) / BTDevice(**data): the dataclass constructor stores
\* the values it is given; strings stay strings.
FromDict(data) == data

\* SELECT id ... WHERE session_id = ? AND device_key = ?  .fetchone()
\* The id of the first matching row, 0 when there is none.
SelectExisting(table, d) ==
    LET ids == {i \in DOMAIN table : /\ table[i].session_id = d.session_id
                                     /\ table[i].device_key = d.device_key}
    IN  IF ids = {} THEN 0 ELSE CHOOSE i \in ids : \A j \in ids : i <= j

\* Evaluating the statement's parameter tuple: .value needs an enum member
\* and .isoformat() a datetime, otherwise AttributeError is raised.
ParamsOk(d, id) ==
    IF id /= 0
    THEN d.last_seen[1] = "datetime"
    ELSE /\ d.device_type[1] = "enum"
         /\ d.first_seen[1] = "datetime"
         /\ d.last_seen[1] = "datetime"

\* UpdateRow with the name column assigned instead of coalesced.
UpdateRow_AssignName(row, d) ==
    [row EXCEPT !.name = d.name,
                !.fingerprint_hash = IF d.fingerprint_hash /= NULL
                                     THEN d.fingerprint_hash ELSE @,
                !.signal = d.signal,
                !.packets_total = IF d.kind = "wifi" THEN d.packets_total
                                  ELSE @,
                !.gps = d.gps,
                !.last_seen = d.last_seen[2]]

\* UPDATE ... SET essid = COALESCE(?, essid), signal_dbm = ?,
\* packets_total = ?, last_seen = ?, gps_* = ?, fingerprint_hash =
\* COALESCE(?, fingerprint_hash) WHERE id = ?   (bt_devices has no
\* packets_total column)
UpdateRow(row, d) ==
    [row EXCEPT !.name = IF d.name /= NULL THEN d.name ELSE @,
                !.fingerprint_hash = IF d.fingerprint_hash /= NULL
                                     THEN d.fingerprint_hash ELSE @,
                !.signal = d.signal,
                !.packets_total = IF d.kind = "wifi" THEN d.packets_total
                                  ELSE @,
                !.gps = d.gps,
                !.last_seen = d.last_seen[2]]

\* INSERT INTO ... VALUES (...)
NewRow(d) ==
    [session_id |-> d.session_id, device_key |-> d.device_key,
     address |-> d.address, name |-> d.name,
     fingerprint_hash |-> d.fingerprint_hash, signal |-> d.signal,
     packets_total |-> IF d.kind = "wifi" THEN d.packets_total ELSE 0,
     gps |-> d.gps, device_type |-> d.device_type[2],
     first_seen |-> d.first_seen[2], last_seen |-> d.last_seen[2]]

\* The write of _do_insert_wifi / _do_insert_bt once the SELECT has run.
Upsert(table, d, id) ==
    IF id /= 0 THEN [table EXCEPT ![id] = UpdateRow(@, d)]
    ELSE Append(table, NewRow(d))

\* _buffer_to_file(record_type, data): append one line to the file named
\* after the record type and the current second.
BufferToFile(files, kind, data) ==
    LET f == <<kind, now>>
    IN  IF f \in DOMAIN files
        THEN [files EXCEPT ![f] = Append(@, data)]
        ELSE [g \in DOMAIN files \cup {f} |->
                IF g = f THEN <<data>> ELSE files[g]]

\* for attempt in range(retries): the loop ends after `retries` failures.
RetryExhausted_OneMore(n) == n > Retries
RetryExhausted(n) == n >= Retries

TotalLines(files) ==
    LET RECURSIVE Sum(_)
        Sum(F) == IF F = {} THEN 0
                  ELSE LET f == CHOOSE g \in F : TRUE
                       IN  Len(files[f]) + Sum(F \ {f})
    IN  Sum(DOMAIN files)

\* One line of a buffer file replayed by import_buffered_records: the
\* record is rebuilt and handed to _do_insert_*; an exception is logged and
\* the loop goes on with the next line.
ReplayLine(tbls, kind, line) ==
    LET d == FromDict(line)
        id == SelectExisting(tbls[kind], d)
    IN  IF ParamsOk(d, id) THEN [tbls EXCEPT ![kind] = Upsert(@, d, id)]
        ELSE tbls

RECURSIVE ReplayLines(_, _, _)
ReplayLines(tbls, kind, lines) ==
    IF lines = <<>> THEN tbls
    ELSE ReplayLines(ReplayLine(tbls, kind, Head(lines)), kind, Tail(lines))

\* for buffer_file in backup_dir.glob("buffer_*.jsonl")
RECURSIVE ReplayFiles(_, _, _)
ReplayFiles(tbls, files, F) ==
    IF F = {} THEN tbls
    ELSE LET f == CHOOSE g \in F : TRUE
         IN  ReplayFiles(ReplayLines(tbls, f[1], files[f]), files, F \ {f})

LinesOf(files) ==
    UNION {{files[f][i] : i \in DOMAIN files[f]} : f \in DOMAIN files}

(***************************************************************************)
(* Store actions                                                           *)
(***************************************************************************)
\* OrchInit restricted to a process that runs no scan.
OrchIdle == OrchInit /\ mainPc = "exit" /\ duration = FALSE

StoreSpecInit == OrchIdle
    /\ StoreInit /\ PollInit /\ EngineInit /\ GpsInit /\ GpsLoopInit
    /\ JoinInit /\ CloseInit /\ EvInit /\ LockInit /\ TrackInit /\ PowerInit
    /\ ParseInit /\ WifiInit /\ SharedInit /\ HopInit /\ SessInit

\* A task calls insert_wifi_device(device) / insert_bt_device(device).
InsertDevice(t) ==
    /\ pc[t] = "idle"
    /\ opsLeft > 0
    /\ \E kind \in Kinds, key \in Keys, name \in Names, signal \in Signals :
          cur' = [cur EXCEPT ![t] = Device(kind, key, name, signal, now)]
    /\ pc' = [pc EXCEPT ![t] = "select"]
    /\ failed' = [failed EXCEPT ![t] = 0]
    /\ existing' = [existing EXCEPT ![t] = 0]
    /\ result' = [result EXCEPT ![t] = "none"]
    /\ closedAtCall' = [closedAtCall EXCEPT ![t] = (conn[t] = "none")]
    /\ opsLeft' = opsLeft - 1
    /\ UNCHANGED <<tables, bufFiles, now, conn, nonStoreVars>>

\* except sqlite3.Error: one more failed attempt; the loop either goes
\* round again or ends, and then the record is buffered and False returned.
AttemptFailed(t) ==
    /\ failed' = [failed EXCEPT ![t] = @ + 1]
    /\ IF RetryExhausted(failed[t] + 1)
       THEN /\ bufFiles' = BufferToFile(bufFiles, cur[t].kind, to_dict(cur[t]))
            /\ result' = [result EXCEPT ![t] = "false"]
            /\ pc' = [pc EXCEPT ![t] = "idle"]
            /\ cur' = [cur EXCEPT ![t] = NoDevice]
       ELSE /\ pc' = [pc EXCEPT ![t] = "select"]
            /\ UNCHANGED <<bufFiles, result, cur>>
    /\ existing' = [existing EXCEPT ![t] = 0]

\* transaction() connects (reopening a closed connection) and the SELECT
\* of _do_insert_* runs.
Select(t) ==
    /\ pc[t] = "select"
    /\ conn' = [conn EXCEPT ![t] = "open"]
    /\ existing' = [existing EXCEPT ![t] =
                       SelectExisting(tables[cur[t].kind], cur[t])]
    /\ pc' = [pc EXCEPT ![t] = "write"]
    /\ UNCHANGED <<tables, bufFiles, now, cur, failed, result, closedAtCall,
                   opsLeft, nonStoreVars>>

\* connect() or the SELECT raises sqlite3.Error.
SelectFails(t) ==
    /\ pc[t] = "select"
    /\ \E c \in {conn[t], "open"} : conn' = [conn EXCEPT ![t] = c]
    /\ AttemptFailed(t)
    /\ UNCHANGED <<tables, now, closedAtCall, opsLeft, nonStoreVars>>

\* The UPDATE or INSERT runs and the transaction commits; an exception
\* that is not a sqlite3.Error leaves insert_*_device.
Write(t) ==
    /\ pc[t] = "write"
    /\ IF ParamsOk(cur[t], existing[t])
       THEN /\ tables' = [tables EXCEPT ![cur[t].kind] =
                             Upsert(@, cur[t], existing[t])]
            /\ result' = [result EXCEPT ![t] = "true"]
       ELSE /\ result' = [result EXCEPT ![t] = "raised"]
            /\ UNCHANGED tables
    /\ pc' = [pc EXCEPT ![t] = "idle"]
    /\ cur' = [cur EXCEPT ![t] = NoDevice]
    /\ existing' = [existing EXCEPT ![t] = 0]
    /\ UNCHANGED <<bufFiles, now, conn, failed, closedAtCall,
                   opsLeft, nonStoreVars>>

\* The UPDATE, INSERT or commit raises sqlite3.Error; rolled back.
WriteFails(t) ==
    /\ pc[t] = "write"
    /\ AttemptFailed(t)
    /\ UNCHANGED <<tables, now, conn, closedAtCall, opsLeft,
                   nonStoreVars>>

\* close()
Close(t) ==
    /\ pc[t] = "idle"
    /\ conn[t] = "open"
    /\ conn' = [conn EXCEPT ![t] = "none"]
    /\ UNCHANGED <<tables, bufFiles, now, pc, cur, existing, failed, result,
                   closedAtCall, opsLeft, nonStoreVars>>

\* import_buffered_records(): every line of every buffer file is replayed,
\* then the file is unlinked.
Drain(t) ==
    /\ pc[t] = "idle"
    /\ DOMAIN bufFiles /= {}
    /\ tables' = ReplayFiles(tables, bufFiles, DOMAIN bufFiles)
    /\ bufFiles' = NoFiles
    /\ conn' = [conn EXCEPT ![t] = "open"]
    /\ UNCHANGED <<now, pc, cur, existing, failed, result, closedAtCall,
                   opsLeft, nonStoreVars>>

\* int(time.time()) moves on to the next second.
Tick ==
    /\ now < MaxEpoch
    /\ now' = now + 1
    /\ UNCHANGED <<tables, bufFiles, conn, pc, cur, existing, failed, result,
                   closedAtCall, opsLeft, nonStoreVars>>

StoreNext ==
    \/ \E t \in Tasks :
          \/ InsertDevice(t) \/ Select(t) \/ SelectFails(t) \/ Write(t)
          \/ WriteFails(t) \/ Close(t) \/ Drain(t)
    \/ Tick

StoreSpec == StoreSpecInit /\ [][StoreNext]_vars

(***************************************************************************)
(* Store properties                                                        *)
(***************************************************************************)
\* A task's call of insert_*_device returns in this step.
Returns(t) == pc[t] /= "idle" /\ pc'[t] = "idle"

\* The table of the record's type holds a row for its (session_id,
\* device_key).
Stored(tbls, line) ==
    \E i \in DOMAIN tbls[line.kind] :
        /\ tbls[line.kind][i].session_id = line.session_id
        /\ tbls[line.kind][i].device_key = line.device_key

\* C7: a device insert whose write path keeps failing is attempted at most
\* Retries (3) times; after the last failed attempt the record is appended
\* as exactly one line to a buffer file and the insert returns False instead
\* of raising; an insert that succeeds on some attempt returns True and
\* writes no buffer line, and no other step of an insert writes one.
C7_RetryThenBuffer ==
    /\ [](\A t \in Tasks :
            /\ failed[t] <= Retries
            /\ result[t] /= "raised"
            /\ result[t] = "false" => failed[t] = Retries
            /\ result[t] = "true" => failed[t] < Retries)
    /\ [][/\ \A t \in Tasks : Returns(t) =>
                \/ /\ result'[t] = "false"
                   /\ TotalLines(bufFiles') = TotalLines(bufFiles) + 1
                   /\ to_dict(cur[t]) \in LinesOf(bufFiles')
                \/ /\ result'[t] = "true"
                   /\ bufFiles' = bufFiles
          /\ TotalLines(bufFiles') > TotalLines(bufFiles) =>
                \E t \in Tasks : Returns(t) /\ result'[t] = "false"]_vars

\* An insert failed Retries times, returned False and left its record as the
\* single line of a buffer file.
C7_Witness ==
    \E t \in Tasks :
        /\ pc[t] = "idle"
        /\ result[t] = "false"
        /\ failed[t] = Retries
        /\ TotalLines(bufFiles) = 1

\* C8: import_buffered_records removes a buffered record only by replaying
\* it successfully: whenever a buffer file disappears, every line it held
\* has been inserted, so its device has a row in the table of its type.
C8_FileDeletedOnlyAfterReplay ==
    [][\A f \in DOMAIN bufFiles :
          f \notin DOMAIN bufFiles' =>
             \A i \in DOMAIN bufFiles[f] : Stored(tables', bufFiles[f][i])]_vars

\* C9: an insert of a wifi device that begins on a closed store returns
\* False and leaves a buffer line holding the device; once a later
\* import_buffered_records has run on the reopened store the buffer files
\* are gone and every wifi device they held has its row in wifi_devices.
C9_ClosedInsertBuffersThenDrains ==
    [][/\ \A t \in Tasks :
             (Returns(t) /\ closedAtCall[t] /\ cur[t].kind = "wifi") =>
                /\ result'[t] = "false"
                /\ to_dict(cur[t]) \in LinesOf(bufFiles')
       /\ (DOMAIN bufFiles /= {} /\ DOMAIN bufFiles' = {}) =>
             \A line \in LinesOf(bufFiles) :
                line.kind = "wifi" => Stored(tables', line)]_vars

\* C10: after any sequence of wifi or bt upserts, also by different tasks,
\* each table holds at most one row per (session_id, device_key).
C10_OneRowPerDeviceKey ==
    \A kind \in Kinds, key \in Keys :
        Cardinality({i \in DOMAIN tables[kind] :
                        /\ tables[kind][i].session_id = "s1"
                        /\ tables[kind][i].device_key = key}) <= 1

(***************************************************************************)
(* Upsert merge: one writer submitting observations of one device key      *)
(***************************************************************************)
Addresses == {"aa", "bb"}
MergeNames == {NULL, "n1"}
Hashes == {NULL, "h1"}
Readings == {[signal |-> -70, packets |-> 1, gps |-> "g1"],
             [signal |-> -50, packets |-> 5, gps |-> NoGps]}

\* The writer calls insert_wifi_device / insert_bt_device with an
\* observation whose timestamp need not be the latest one.
SubmitObservation(t) ==
    /\ pc[t] = "idle"
    /\ opsLeft > 0
    /\ \E kind \in Kinds, address \in Addresses, name \in MergeNames,
          hash \in Hashes, r \in Readings, ts \in 1..MaxEpoch :
          cur' = [cur EXCEPT ![t] =
                     Observation(kind, "k1", address, name, hash, r.signal,
                                 r.packets, r.gps, ts)]
    /\ pc' = [pc EXCEPT ![t] = "select"]
    /\ failed' = [failed EXCEPT ![t] = 0]
    /\ existing' = [existing EXCEPT ![t] = 0]
    /\ result' = [result EXCEPT ![t] = "none"]
    /\ closedAtCall' = [closedAtCall EXCEPT ![t] = (conn[t] = "none")]
    /\ opsLeft' = opsLeft - 1
    /\ UNCHANGED <<tables, bufFiles, now, conn, nonStoreVars>>

MergeNext == SubmitObservation("t1") \/ Select("t1") \/ Write("t1")

MergeSpec == StoreSpecInit /\ [][MergeNext]_vars

C12_LastSeenNotBeforeFirstSeen ==
    \A kind \in Kinds : \A i \in DOMAIN tables[kind] :
        tables[kind][i].last_seen >= tables[kind][i].first_seen

(***************************************************************************)
(* Fingerprint signatures: insert_signature called by several tasks        *)
(***************************************************************************)
SigTypes == {"phone", "laptop", "tablet"}

\* A FingerprintSignature; read is the times_seen the caller's SELECT
\* returned.
Signature(hash, type) ==
    [kind |-> "sig", fingerprint_hash |-> hash, device_type |-> type,
     read |-> 0]

\* SELECT id, times_seen ... WHERE fingerprint_hash = ?  .fetchone()
SelectSignature(table, hash) ==
    LET ids == {i \in DOMAIN table : table[i].fingerprint_hash = hash}
    IN  IF ids = {} THEN 0 ELSE CHOOSE i \in ids : \A j \in ids : i <= j

\* A task calls insert_signature(sig).
InsertSignature(t) ==
    /\ pc[t] = "idle"
    /\ opsLeft > 0
    /\ \E type \in SigTypes :
          cur' = [cur EXCEPT ![t] = Signature("h1", type)]
    /\ pc' = [pc EXCEPT ![t] = "sig_select"]
    /\ existing' = [existing EXCEPT ![t] = 0]
    /\ result' = [result EXCEPT ![t] = "none"]
    /\ opsLeft' = opsLeft - 1
    /\ UNCHANGED <<tables, bufFiles, now, conn, failed, closedAtCall,
                   nonStoreVars>>

\* transaction() connects and the SELECT runs: the caller now holds the id
\* and the times_seen it read.
SigSelect(t) ==
    /\ pc[t] = "sig_select"
    /\ conn' = [conn EXCEPT ![t] = "open"]
    /\ LET id == SelectSignature(tables["sig"], cur[t].fingerprint_hash)
       IN  /\ existing' = [existing EXCEPT ![t] = id]
           /\ cur' = [cur EXCEPT ![t].read =
                         IF id = 0 THEN 0 ELSE tables["sig"][id].times_seen]
    /\ pc' = [pc EXCEPT ![t] = "sig_write"]
    /\ UNCHANGED <<tables, bufFiles, now, failed, result, closedAtCall,
                   opsLeft, nonStoreVars>>

\* UPDATE ... SET times_seen = <read + 1> WHERE id = ?, or the INSERT, whose
\* UNIQUE(fingerprint_hash) raises IntegrityError when the hash has been
\* inserted meanwhile; then commit, or rollback and the exception leaves
\* insert_signature.
SigWrite(t) ==
    /\ pc[t] = "sig_write"
    /\ IF existing[t] /= 0
       THEN /\ tables' = [tables EXCEPT !["sig"][existing[t]].times_seen =
                             cur[t].read + 1]
            /\ result' = [result EXCEPT ![t] = "true"]
       ELSE IF SelectSignature(tables["sig"], cur[t].fingerprint_hash) /= 0
            THEN /\ result' = [result EXCEPT ![t] = "raised"]
                 /\ UNCHANGED tables
            ELSE /\ tables' = [tables EXCEPT !["sig"] = Append(@,
                                  [fingerprint_hash |-> cur[t].fingerprint_hash,
                                   device_type |-> cur[t].device_type,
                                   times_seen |-> 1])]
                 /\ result' = [result EXCEPT ![t] = "true"]
    /\ pc' = [pc EXCEPT ![t] = "idle"]
    /\ cur' = [cur EXCEPT ![t] = NoDevice]
    /\ existing' = [existing EXCEPT ![t] = 0]
    /\ UNCHANGED <<bufFiles, now, conn, failed, closedAtCall, opsLeft,
                   nonStoreVars>>

SigNext == \E t \in Tasks : InsertSignature(t) \/ SigSelect(t) \/ SigWrite(t)

SigSpec == StoreSpecInit /\ [][SigNext]_vars

\* C13: once n >= 1 insert_signature calls for one hash have returned, in any
\* interleaving of the callers, there is exactly one signature row for the
\* hash and its times_seen is n; no call raises; the row's other fields stay
\* at their first-write values.
C13_TimesSeenCountsInserts ==
    /\ []((opsLeft < MaxOps /\ \A t \in Tasks : pc[t] = "idle") =>
             /\ Len(tables["sig"]) = 1
             /\ tables["sig"][1].times_seen = MaxOps - opsLeft
             /\ \A t \in Tasks : result[t] /= "raised")
    /\ [][\A i \in DOMAIN tables["sig"] :
             /\ tables'["sig"][i].fingerprint_hash =
                   tables["sig"][i].fingerprint_hash
             /\ tables'["sig"][i].device_type = tables["sig"][i].device_type
         ]_vars

(***************************************************************************)
(* Transactions: the transaction() context manager on each connection      *)
(***************************************************************************)
\* conn.commit(): the connection's uncommitted writes reach the tables.
RECURSIVE Commit(_, _)
Commit(tbls, writes) ==
    IF writes = << >> THEN tbls
    ELSE Commit([tbls EXCEPT ![Head(writes).kind] = Append(@, Head(writes).row)],
                Tail(writes))

\* The except clause without its conn.rollback().
Rollback_Skipped(writes) == writes

\* conn.rollback(): the connection's uncommitted writes are discarded.
Rollback(writes) == << >>

\* The writes in `writes` that transaction number txn executed.
WritesOf(writes, txn) ==
    LET Own(w) == w.txn = txn IN SelectSeq(writes, Own)

\* with self.transaction() as conn: connect() and enter the body.
TxEnter(t) ==
    /\ pc[t] = "idle"
    /\ opsLeft > 0
    /\ conn' = [conn EXCEPT ![t] = "open"]
    /\ cur' = [cur EXCEPT ![t] = [kind |-> "txn", txn |-> MaxOps - opsLeft + 1]]
    /\ pc' = [pc EXCEPT ![t] = "tx_body"]
    /\ result' = [result EXCEPT ![t] = "none"]
    /\ opsLeft' = opsLeft - 1
    /\ UNCHANGED <<tables, bufFiles, now, existing, failed, closedAtCall,
                   pending, nonTxnVars>>

\* conn.execute(INSERT ...) inside the body: the write is pending on the
\* connection.
TxExecute(t) ==
    /\ pc[t] = "tx_body"
    /\ Len(WritesOf(pending[t], cur[t].txn)) < MaxStatements
    /\ \E kind \in Kinds, key \in Keys :
          pending' = [pending EXCEPT ![t] = Append(@,
                         [txn |-> cur[t].txn, kind |-> kind,
                          row |-> NewRow(Device(kind, key, NULL, -70, now))])]
    /\ UNCHANGED <<storeVars, nonTxnVars>>

\* An exception is raised inside the body (a failing statement, or any
\* other Exception): conn.rollback(), then the exception is re-raised.
TxRaise(t) ==
    /\ pc[t] = "tx_body"
    /\ pending' = [pending EXCEPT ![t] = Rollback(@)]
    /\ result' = [result EXCEPT ![t] = "raised"]
    /\ pc' = [pc EXCEPT ![t] = "idle"]
    /\ cur' = [cur EXCEPT ![t] = NoDevice]
    /\ UNCHANGED <<tables, bufFiles, now, conn, existing, failed,
                   closedAtCall, opsLeft, nonTxnVars>>

\* The body ends: conn.commit(); a commit that raises sqlite3.Error is
\* handled by the same except clause.
TxExit(t) ==
    /\ pc[t] = "tx_body"
    /\ \E committed \in BOOLEAN :
          IF committed
          THEN /\ tables' = Commit(tables, pending[t])
               /\ pending' = [pending EXCEPT ![t] = << >>]
               /\ result' = [result EXCEPT ![t] = "true"]
          ELSE /\ pending' = [pending EXCEPT ![t] = Rollback(@)]
               /\ result' = [result EXCEPT ![t] = "raised"]
               /\ UNCHANGED tables
    /\ pc' = [pc EXCEPT ![t] = "idle"]
    /\ cur' = [cur EXCEPT ![t] = NoDevice]
    /\ UNCHANGED <<bufFiles, now, conn, existing, failed, closedAtCall,
                   opsLeft, nonTxnVars>>

TxnNext ==
    \E t \in Tasks : TxEnter(t) \/ TxExecute(t) \/ TxRaise(t) \/ TxExit(t)

TxnSpec == StoreSpecInit /\ [][TxnNext]_vars

\* C14: every store mutation is all-or-nothing: a transaction that ends with
\* an exception leaves none of its writes in the tables and none pending on
\* its connection; the tables change only in the step in which a
\* transaction commits, and then by exactly that transaction's writes.
C14_TransactionsAllOrNothing ==
    /\ [](\A t \in Tasks : pc[t] = "idle" => pending[t] = << >>)
    /\ [][/\ \A t \in Tasks : (pc[t] = "tx_body" /\ pc'[t] = "idle") =>
                IF result'[t] = "true"
                THEN tables' = Commit(tables, WritesOf(pending[t], cur[t].txn))
                ELSE tables' = tables
          /\ tables' /= tables =>
                \E t \in Tasks : /\ pc[t] = "tx_body"
                                 /\ pc'[t] = "idle"
                                 /\ result'[t] = "true"]_vars

\* One task's transaction ended with an exception and the other task's
\* transaction committed one write: only the committed write is stored.
C14_Witness ==
    /\ opsLeft = MaxOps - 2
    /\ result = [t1 |-> "raised", t2 |-> "true"]
    /\ \A t \in Tasks : pc[t] = "idle"
    /\ Len(tables["wifi"]) = 1
    /\ Len(tables["bt"]) = 0

(***************************************************************************)
(* Poller: KismetController._poll_loop against the daemon                  *)
(***************************************************************************)
\* json_data["last_time"] = int(last_time), sent only "if last_time"; the
\* clock counts whole seconds, so int() leaves the value as it is.
SinceParam(last_time) == IF last_time /= 0 THEN last_time ELSE 0

\* The daemon's answer: every device it has seen, or with last_time only
\* those active since that timestamp; each with its last_time.
DevicesSince(since) ==
    {<<m, kismetLast[m]>> : m \in {d \in Macs : /\ kismetLast[d] /= 0
                                                /\ kismetLast[d] >= since}}

\* The daemon records activity of a device.
DeviceActive(m) ==
    /\ kismetLast[m] < clock
    /\ kismetLast' = [kismetLast EXCEPT ![m] = clock]
    /\ UNCHANGED <<clock, last_poll_time, pollPc, response, pollFailed,
                   sinceSent, reqTime, okTime, emitted, polls, nonPollVars>>

\* Time passes.
ClockTick ==
    /\ clock < MaxClock
    /\ clock' = clock + 1
    /\ UNCHANGED <<kismetLast, last_poll_time, pollPc, response, pollFailed,
                   sinceSent, reqTime, okTime, emitted, polls, nonPollVars>>

\* _poll_devices: get_devices(last_time=self._last_poll_time) is answered.
PollRequest ==
    /\ pollPc = "sleep"
    /\ polls < MaxPolls
    /\ sinceSent' = SinceParam(last_poll_time)
    /\ response' = DevicesSince(SinceParam(last_poll_time))
    /\ pollFailed' = FALSE
    /\ reqTime' = clock
    /\ okTime' = clock
    /\ polls' = polls + 1
    /\ pollPc' = "process"
    /\ UNCHANGED <<clock, kismetLast, last_poll_time, emitted, nonPollVars>>

\* The request ends in a connection error, a timeout or an HTTP error:
\* _api_request returns None and get_devices returns [].
PollFails ==
    /\ pollPc = "sleep"
    /\ polls < MaxPolls
    /\ sinceSent' = SinceParam(last_poll_time)
    /\ response' = {}
    /\ pollFailed' = TRUE
    /\ reqTime' = clock
    /\ polls' = polls + 1
    /\ pollPc' = "process"
    /\ UNCHANGED <<clock, kismetLast, last_poll_time, okTime, emitted,
                   nonPollVars>>

\* The rest of _poll_devices: every returned device goes to the new-device
\* or device-update callbacks, then _last_poll_time = time.time().
PollProcess ==
    /\ pollPc = "process"
    /\ emitted' = [m \in Macs |->
                     IF \E r \in response : r[1] = m
                     THEN (CHOOSE r \in response : r[1] = m)[2]
                     ELSE emitted[m]]
    /\ last_poll_time' = clock
    /\ pollPc' = "sleep"
    /\ UNCHANGED <<clock, kismetLast, response, pollFailed, sinceSent,
                   reqTime, okTime, polls, nonPollVars>>

PollNext ==
    \/ \E m \in Macs : DeviceActive(m)
    \/ ClockTick \/ PollRequest \/ PollFails \/ PollProcess

PollSpec == StoreSpecInit /\ [][PollNext]_vars

\* C15: a poll that ends in a transport error does not advance since_ts
\* (_last_poll_time keeps its value), so the next poll still asks for the
\* devices seen since the last successful poll.
C15_FailedPollKeepsSince ==
    [][(pollPc = "process" /\ pollFailed /\ pollPc' = "sleep") =>
          last_poll_time' = last_poll_time]_vars

\* The poller against a daemon that answers every request.
ReliablePollNext ==
    \/ \E m \in Macs : DeviceActive(m)
    \/ ClockTick \/ PollRequest \/ PollProcess

ReliablePollSpec == StoreSpecInit /\ [][ReliablePollNext]_vars

\* C16: the first poll omits since_ts, and no device activity falls between
\* two polls: once a successful poll has been processed, every device whose
\* latest activity the daemon recorded before that poll's request has been
\* passed to the callbacks with that activity's last_time.
C16_NoActivityMissed ==
    /\ polls = 1 => sinceSent = 0
    /\ (pollPc = "sleep" /\ polls > 0 /\ ~pollFailed) =>
          \A m \in Macs :
             (kismetLast[m] /= 0 /\ kismetLast[m] < okTime) =>
                emitted[m] = kismetLast[m]

(***************************************************************************)
(* Fingerprint engine: process_wifi_probe / process_bluetooth_device        *)
(***************************************************************************)
\* The fields of the WiFiDevice and BTDevice dataclasses, and those without
\* a default.
DeviceFields(kind) ==
    {"device_key", "device_type", "manufacturer", "first_seen", "last_seen",
     "gps_lat", "gps_lon", "gps_alt", "gps_valid", "fingerprint_hash",
     "fingerprint_data", "is_known", "identified_as", "session_id",
     "is_duplicate", "duplicate_of_id", "seen_by_nodes"} \cup
    IF kind = "wifi"
    THEN {"bssid", "essid", "channel", "frequency", "signal_dbm",
          "encryption", "packets_total"}
    ELSE {"mac_address", "device_name", "device_class", "rssi",
          "service_uuids"}

RequiredFields(kind) ==
    IF kind = "wifi" THEN {"device_key", "bssid"}
    ELSE {"device_key", "mac_address"}

\* The keyword arguments _store_wifi_device / _store_bt_device pass to the
\* constructor.
EngineKwargs(kind) ==
    {"mac", "rssi", "first_seen", "last_seen", "latitude", "longitude",
     "altitude", "gps_valid", "manufacturer", "fingerprint_hash"} \cup
    IF kind = "wifi" THEN {"ssid", "channel", "packets", "is_client"}
    ELSE {"name", "bt_type", "device_class"}

\* A dataclass constructor raises TypeError for a keyword that is not a
\* field and for a missing field that has no default.
ConstructorAccepts(kwargs, fields, required) ==
    kwargs \subseteq fields /\ required \subseteq kwargs

\* process_wifi_probe / process_bluetooth_device for a device with this MAC:
\* the fingerprint is computed and counted; with auto-store on,
\* _store_*_device builds the record and calls insert_*_device, which stores
\* or buffers it; an exception in _store_*_device is logged and swallowed.
ProcessDevice(kind, mac) ==
    /\ fingerprints[kind] < MaxProbes
    /\ fingerprints' = [fingerprints EXCEPT ![kind] = @ + 1]
    /\ processed' = IF auto_store THEN processed \cup {<<kind, mac>>}
                    ELSE processed
    /\ IF /\ auto_store
          /\ ConstructorAccepts(EngineKwargs(kind), DeviceFields(kind),
                                RequiredFields(kind))
       THEN LET d == Observation(kind, mac, mac, NULL, "h1", -70, 1, NoGps,
                                 now)
            IN  \E inserted \in BOOLEAN :
                   IF inserted
                   THEN /\ tables' = [tables EXCEPT ![kind] =
                                 Upsert(@, d, SelectExisting(@, d))]
                        /\ UNCHANGED bufFiles
                   ELSE /\ bufFiles' = BufferToFile(bufFiles, kind, to_dict(d))
                        /\ UNCHANGED tables
       ELSE UNCHANGED <<tables, bufFiles>>
    /\ UNCHANGED <<now, conn, pc, cur, existing, failed, result, closedAtCall,
                   opsLeft, auto_store, nonEngineVars>>

ProcessWifiProbe(mac) == ProcessDevice("wifi", mac)
ProcessBluetoothDevice(mac) == ProcessDevice("bt", mac)

\* The caller switches auto-store on or off.
SetAutoStore ==
    /\ auto_store' = ~auto_store
    /\ UNCHANGED <<fingerprints, processed, storeVars, nonEngineVars>>

EngineNext ==
    \/ \E mac \in Macs : ProcessWifiProbe(mac) \/ ProcessBluetoothDevice(mac)
    \/ SetAutoStore

EngineSpec == StoreSpecInit /\ [][EngineNext]_vars

\* C17: after every on_wifi_probe / on_bt_device call made while auto-store
\* is enabled and a store is attached, the device is present in the store:
\* it has a row in the table of its type or a line in a buffer file.
C17_ProcessedDeviceIsStored ==
    \A p \in processed :
       \/ \E i \in DOMAIN tables[p[1]] : tables[p[1]][i].address = p[2]
       \/ \E line \in LinesOf(bufFiles) :
             line.kind = p[1] /\ line.address = p[2]

(***************************************************************************)
(* Session status                                                           *)
(***************************************************************************)
\* C18: the persisted status of a session only moves along
\* starting -> running -> stopping -> stopped: the row is created as
\* starting, every later change is one step forward along that order, and
\* error is terminal.
C18_SessionStatusOrder ==
    [][\/ sessionRow'.status = sessionRow.status
       \/ <<sessionRow.status, sessionRow'.status>> \in
             {<<"none", "starting">>, <<"starting", "running">>,
              <<"running", "stopping">>, <<"stopping", "stopped">>,
              <<"starting", "error">>, <<"running", "error">>,
              <<"stopping", "error">>}]_vars

CallbackIds == {"cb1", "cb2"}

Range(seq) == {seq[i] : i \in DOMAIN seq}

\* list.remove(x): removes the first occurrence.
RemoveFirst(seq, x) ==
    LET i == CHOOSE k \in DOMAIN seq :
                 seq[k] = x /\ \A j \in 1..(k - 1) : seq[j] /= x
    IN  SubSeq(seq, 1, i - 1) \o SubSeq(seq, i + 1, Len(seq))

\* _init_gps: a MockGPSLogger with mock_gps, a GPSLogger otherwise.
CreateGps(mock_gps) ==
    /\ gpsKind = "none"
    /\ gpsKind' = IF mock_gps THEN "mock" ELSE "gpsd"
    /\ UNCHANGED <<callbacks, current_position, samples, iter, owed, got,
                   position_history, nonGpsVars>>

RegisterCallback(cb) ==
    /\ Len(callbacks) < MaxCallbacks
    /\ callbacks' = Append(callbacks, cb)
    /\ UNCHANGED <<gpsKind, current_position, samples, iter, owed, got,
                   position_history, nonGpsVars>>

\* unregister_callback: a callback removed while a sample is being delivered
\* is no longer subscribed for that sample.
UnregisterCallback(cb) ==
    /\ callbacks' = IF cb \in Range(callbacks) THEN RemoveFirst(callbacks, cb)
                    ELSE callbacks
    /\ owed' = IF iter > 0 /\ cb \notin Range(callbacks') THEN owed \ {cb}
               ELSE owed
    /\ UNCHANGED <<gpsKind, current_position, samples, iter, got,
                   position_history, nonGpsVars>>

\* The quality limits the orchestrator configures by default.
min_hdop == 10
min_satellites == 4

\* What gpsd reports: the fix mode (1 none, 2 2D, 3 3D), the horizontal
\* dilution of precision and the number of satellites used.
Packets == [mode : {1, 2, 3}, hdop : {9, 10, 11}, sats : {3, 4}]

\* GPSPosition.invalid(): the placeholder with the dataclass defaults.
InvalidPosition(ts) ==
    [timestamp |-> ts, hdop |-> 99, fix_quality |-> 0, satellites |-> 0,
     valid |-> FALSE]

\* _parse_gpsd_packet: packet.position() raises NoFixError below a 2D fix,
\* which yields the placeholder; otherwise the sample is valid iff it passes
\* all three limits.
ParseGpsdPacket(packet, ts) ==
    IF packet.mode < 2 THEN InvalidPosition(ts)
    ELSE [timestamp |-> ts, hdop |-> packet.hdop,
          fix_quality |-> IF packet.mode >= 2 THEN 1 ELSE 0,
          satellites |-> packet.sats,
          valid |-> /\ packet.hdop <= min_hdop
                    /\ packet.sats >= min_satellites
                    /\ packet.mode >= 2]

\* Mutation of AppendHistory: the history is never trimmed.
AppendHistory_NoTrim(history, position) == Append(history, position)

\* The append and trim both _update_position methods do under the lock.
AppendHistory(history, position) ==
    LET h == Append(history, position)
    IN  IF Len(h) > HistorySize
        THEN SubSeq(h, Len(h) - HistorySize + 1, Len(h))
        ELSE h

\* GPSLogger._update_position, lines 189-210: the sample is parsed (an
\* invalid one when there is no fix), stored as the current position and,
\* when valid, appended to the history, and the loop over self._callbacks
\* begins.
UpdatePosition(packet) ==
    /\ gpsKind = "gpsd"
    /\ iter = 0
    /\ samples < MaxSamples
    /\ samples' = samples + 1
    /\ LET position == ParseGpsdPacket(packet, samples + 1) IN
          /\ current_position' = position
          /\ position_history' = IF position.valid
                                  THEN AppendHistory(position_history, position)
                                  ELSE position_history
    /\ owed' = Range(callbacks)
    /\ got' = {}
    /\ iter' = 1
    /\ UNCHANGED <<gpsKind, callbacks, nonGpsVars>>

\* One round of `for callback in self._callbacks`: the list iterator yields
\* the element at its index in the list as it is now, or ends the loop; an
\* exception raised by the callback is logged and the loop goes on.
NotifyCallback ==
    /\ iter > 0
    /\ IF iter <= Len(callbacks)
       THEN /\ got' = got \cup {callbacks[iter]}
            /\ iter' = iter + 1
       ELSE /\ iter' = 0
            /\ UNCHANGED got
    /\ UNCHANGED <<gpsKind, callbacks, current_position, samples, owed,
                   position_history, nonGpsVars>>

\* MockGPSLogger._update_position: the sample is built with valid=True,
\* an hdop within 0.8 .. 2.0 and 6 .. 12 satellites, stored as the current
\* position and appended to the history; the method ends there.
MockUpdatePosition ==
    /\ gpsKind = "mock"
    /\ samples < MaxSamples
    /\ samples' = samples + 1
    /\ \E h \in {1, 2}, n \in {6, 12} :
          LET position == [timestamp |-> samples + 1, hdop |-> h,
                           fix_quality |-> 1, satellites |-> n,
                           valid |-> TRUE]
          IN  /\ current_position' = position
              /\ position_history' = AppendHistory(position_history, position)
    /\ owed' = Range(callbacks)
    /\ got' = {}
    /\ UNCHANGED <<gpsKind, callbacks, iter, nonGpsVars>>

GpsNext ==
    \/ \E mock_gps \in BOOLEAN : CreateGps(mock_gps)
    \/ \E cb \in CallbackIds : RegisterCallback(cb)
    \/ \E cb \in CallbackIds : UnregisterCallback(cb)
    \/ \E packet \in Packets : UpdatePosition(packet)
    \/ NotifyCallback
    \/ MockUpdatePosition

GpsSpec == StoreSpecInit /\ [][GpsNext]_vars

\* C20: every sample produced by the GPS polling task, valid or invalid, is
\* delivered to every currently subscribed callback: once the polling task
\* is done with a sample, every callback that was subscribed while the
\* sample was produced and delivered has been invoked with it.
C20_EverySampleToEverySubscriber ==
    iter = 0 => owed \subseteq got

\* The quality gate, read off a stored sample.
PassesGate(p) ==
    /\ p.fix_quality >= 1
    /\ p.hdop <= min_hdop
    /\ p.satellites >= min_satellites

poll_interval == 1
RECONNECT_DELAY == 2

\* Whether an exception leaves _update_position: its body is one
\* try / except Exception that logs and returns (lines 188, 216-217).
UpdatePositionRaises(failed_request) == FALSE

\* gpsd.connect(): a new stream when the source accepts connections.
Connect == IF reachable THEN "ok" ELSE "broken"

\* The connection to the GPS source is lost.
SourceLost ==
    /\ reachable
    /\ reachable' = FALSE
    /\ stream' = "broken"
    /\ UNCHANGED <<gpsTime, lastFailure, delivered, connects, nonGpsLoopVars>>

\* The GPS source is reachable again; the old stream stays broken.
SourceBack ==
    /\ ~reachable
    /\ reachable' = TRUE
    /\ UNCHANGED <<gpsTime, stream, lastFailure, delivered, connects,
                   nonGpsLoopVars>>

\* One round of _poll_loop: _update_position() requests a sample on the
\* stream; an exception reaching the loop is followed by a 2 s pause and
\* connect(); the round ends with the sleep of poll_interval.
PollLoopRound ==
    /\ gpsTime + poll_interval + RECONNECT_DELAY <= MaxGpsTime
    /\ LET failed_request == stream = "broken" IN
          /\ delivered' = IF failed_request THEN delivered ELSE delivered + 1
          /\ lastFailure' = IF failed_request THEN gpsTime ELSE -1
          /\ IF UpdatePositionRaises(failed_request)
             THEN /\ connects' = connects + 1
                  /\ stream' = Connect
                  /\ gpsTime' = gpsTime + RECONNECT_DELAY + poll_interval
             ELSE /\ gpsTime' = gpsTime + poll_interval
                  /\ UNCHANGED <<connects, stream>>
    /\ UNCHANGED <<reachable, nonGpsLoopVars>>

GpsLoopNext == SourceLost \/ SourceBack \/ PollLoopRound

\* The polling thread keeps running while the logger is started.
GpsLoopSpec ==
    StoreSpecInit /\ [][GpsLoopNext]_vars /\ WF_vars(PollLoopRound)

\* C22: when the connection to the GPS source is lost the service retries
\* the connection with at least 2 s between attempts, and it resumes
\* delivering samples once the source is reachable again: two consecutive
\* failed attempts are at least 2 s apart, and a lost connection whose
\* source is reachable (with time left for a retry) leads to a working
\* connection unless the source goes away again.
C22_ReconnectWithBackoff ==
    /\ [][(lastFailure >= 0 /\ lastFailure' >= 0 /\ lastFailure' /= lastFailure)
            => lastFailure' - lastFailure >= 2]_vars
    /\ ((reachable /\ stream = "broken"
           /\ gpsTime + 2 * (poll_interval + RECONNECT_DELAY) <= MaxGpsTime)
          ~> (stream = "ok" \/ ~reachable))

(***************************************************************************)
(* GPS track: _on_gps_update and insert_gps_point                           *)
(***************************************************************************)
\* Values carry their Python type.
PyFloat(x) == <<"float", x>>
PyInt(x) == <<"int", x>>
PyDatetime(x) == <<"datetime", x>>
PyNone == <<"none", 0>>

\* The valid and invalid samples a callback can be handed, taken up to
\* time `t`.
TrackSamples(t) ==
    [latitude : {PyFloat(51)}, longitude : {PyFloat(0)}, altitude : {PyFloat(50)},
     timestamp : {PyDatetime(u) : u \in 0..t}, hdop : {PyFloat(1), PyFloat(2)},
     satellites : {PyInt(6)}, valid : BOOLEAN]

\* The parameters of insert_gps_point after self, and their defaults.
GpsPointParams ==
    <<"session_id", "lat", "lon", "alt", "speed", "track", "fix_quality",
      "hdop", "satellites", "timestamp">>

GpsPointDefaults ==
    [speed |-> PyNone, track |-> PyNone, fix_quality |-> PyInt(0), hdop |-> PyNone,
     satellites |-> PyInt(0), timestamp |-> PyNone]

\* A call with positional arguments binds the i-th argument to the i-th
\* parameter; the parameters left over take their defaults.
BindPositional(args) ==
    [name \in {GpsPointParams[i] : i \in DOMAIN GpsPointParams} |->
        LET i == CHOOSE k \in DOMAIN GpsPointParams : GpsPointParams[k] = name
        IN  IF i <= Len(args) THEN args[i] ELSE GpsPointDefaults[name]]

\* insert_gps_point: the row that the INSERT writes; a missing timestamp is
\* replaced by datetime.utcnow().
GpsTrackRow(bound, utcnow) ==
    [session_id |-> bound.session_id,
     timestamp |-> IF bound.timestamp = PyNone THEN PyDatetime(utcnow)
                   ELSE bound.timestamp,
     latitude |-> bound.lat, longitude |-> bound.lon, altitude |-> bound.alt,
     speed |-> bound.speed, track |-> bound.track,
     fix_quality |-> bound.fix_quality, hdop |-> bound.hdop,
     satellites |-> bound.satellites]

\* _init_database: the schema is created on the main thread, which opens
\* the store's connection there.
InitializeSchema ==
    /\ trackOwner = "none"
    /\ trackOwner' = "main"
    /\ UNCHANGED <<trackNow, gps_track, gps_fixes, fed, nonTrackVars>>

TrackTick ==
    /\ trackNow < MaxEpoch
    /\ trackNow' = trackNow + 1
    /\ UNCHANGED <<trackOwner, gps_track, gps_fixes, fed, nonTrackVars>>

\* _on_gps_update(position), called on the GPS polling thread while the
\* session runs: a valid sample is counted and handed to insert_gps_point,
\* whose connection is opened by the calling thread when there is none and
\* raises sqlite3.ProgrammingError when another thread opened it.
OnGpsUpdate(position) ==
    /\ gps_fixes < MaxFixes
    /\ position.timestamp[2] <= trackNow
    /\ IF position.valid
       THEN /\ gps_fixes' = gps_fixes + 1
            /\ fed' = Append(fed, position)
            /\ IF trackOwner \in {"none", "gps"}
               THEN /\ trackOwner' = "gps"
                    /\ gps_track' = Append(gps_track,
                          GpsTrackRow(BindPositional(
                              <<"s1", position.latitude, position.longitude,
                                position.altitude, position.timestamp,
                                position.hdop, position.satellites>>),
                              trackNow))
               ELSE UNCHANGED <<trackOwner, gps_track>>
       ELSE UNCHANGED <<trackOwner, gps_track, gps_fixes, fed>>
    /\ UNCHANGED <<trackNow, nonTrackVars>>

TrackNext ==
    \/ InitializeSchema
    \/ TrackTick
    \/ \E position \in TrackSamples(MaxEpoch) : OnGpsUpdate(position)

TrackSpec == StoreSpecInit /\ [][TrackNext]_vars

\* C23: while a session is running every valid GPS sample results in one
\* gps_track point for that session that records the sample's position,
\* timestamp, hdop and satellite count, and invalid samples add no point:
\* the table holds one row per valid sample, in order, with these values.
C23_OnePointPerValidSample ==
    /\ Len(gps_track) = Len(fed)
    /\ \A i \in DOMAIN gps_track :
          i \in DOMAIN fed =>
             /\ gps_track[i].session_id = "s1"
             /\ gps_track[i].latitude = fed[i].latitude
             /\ gps_track[i].longitude = fed[i].longitude
             /\ gps_track[i].altitude = fed[i].altitude
             /\ gps_track[i].timestamp = fed[i].timestamp
             /\ gps_track[i].hdop = fed[i].hdop
             /\ gps_track[i].satellites = fed[i].satellites

(***************************************************************************)
(* Power monitor: one sample of _monitor_loop and its callbacks             *)
(***************************************************************************)
\* Readings at each threshold and just above it.
PowerReadings ==
    {VOLTAGE_SHUTDOWN, VOLTAGE_SHUTDOWN + 1, VOLTAGE_CRITICAL,
     VOLTAGE_CRITICAL + 1, VOLTAGE_WARNING, VOLTAGE_WARNING + 1}

CallbackKinds == {"warning", "critical", "shutdown"}

\* Lines 115-137: which callbacks a sample triggers, from the state before
\* it and the state it yields.
Triggered(old_state, new_state) ==
    IF new_state = "shutdown" THEN {"shutdown"}
    ELSE IF new_state = "critical"
         THEN IF old_state /= "critical" THEN {"critical"} ELSE {}
    ELSE IF new_state = "warning"
         THEN IF old_state \notin {"warning", "critical", "shutdown"}
              THEN {"warning"} ELSE {}
    ELSE {}

\* One round of _monitor_loop: the reading is stored, the state updated and
\* the triggered callbacks are invoked; a callback's exception is logged.
PowerSample(voltage) ==
    /\ pm_samples < MaxPowerSamples
    /\ pm_samples' = pm_samples + 1
    /\ power_voltage' = voltage
    /\ pm_state' = determine_state(voltage)
    /\ pm_calls' = [s \in CallbackKinds |->
                      IF s \in Triggered(pm_state, determine_state(voltage))
                      THEN pm_calls[s] + 1 ELSE pm_calls[s]]
    /\ UNCHANGED nonPowerVars

PowerNext == \E voltage \in PowerReadings : PowerSample(voltage)

PowerSpec == StoreSpecInit /\ [][PowerNext]_vars

\* The classification by inclusive thresholds.
Classified(v) ==
    IF v <= VOLTAGE_SHUTDOWN THEN "shutdown"
    ELSE IF v <= VOLTAGE_CRITICAL THEN "critical"
    ELSE IF v <= VOLTAGE_WARNING THEN "warning"
    ELSE "ok"

TypeLabels ==
    {"Wi-Fi Device", "Wi-Fi AP", "Wi-Fi Client", "BR/EDR", "BTLE",
     "Wi-Fi Bridged", "unknown"}

RawDevices == [mac : Macs, type : TypeLabels, channel : {1, 6}]

\* _parse_device: device_type and bt_type from the raw type label, the
\* other fields copied.
ParseDevice(raw) ==
    LET device_type ==
           IF raw.type = "Wi-Fi Device" THEN "wifi"
           ELSE IF raw.type \in {"BR/EDR", "BTLE"} THEN "bluetooth"
           ELSE "unknown"
    IN  [mac |-> raw.mac,
         device_type |-> device_type,
         channel |-> raw.channel,
         bt_type |-> IF device_type = "bluetooth"
                     THEN IF raw.type = "BTLE" THEN "ble" ELSE "classic"
                     ELSE NULL]

\* _poll_devices, one raw record of the response: the record is parsed,
\* stored under its MAC and handed to the new-device callbacks or to the
\* update callbacks.
PollRecord(raw) ==
    /\ last_raw' = raw
    /\ kdevices' = [kdevices EXCEPT ![raw.mac] = ParseDevice(raw)]
    /\ last_emitted' = ParseDevice(raw)
    /\ UNCHANGED nonParseVars

ParseNext == \E raw \in RawDevices : PollRecord(raw)

ParseSpec == StoreSpecInit /\ [][ParseNext]_vars

\* C25: records with raw type label "Wi-Fi Device", "Wi-Fi AP" or
\* "Wi-Fi Client" are all emitted as wifi, "BR/EDR" as bluetooth with
\* bt_type classic, "BTLE" as bluetooth with bt_type ble, and a record with
\* any other label is emitted as unknown and is still emitted.
C25_TypeLabelMapping ==
    last_raw /= NoKismetDevice =>
       /\ last_emitted /= NoKismetDevice
       /\ last_emitted.mac = last_raw.mac
       /\ last_emitted.device_type =
             IF last_raw.type \in {"Wi-Fi Device", "Wi-Fi AP", "Wi-Fi Client"}
             THEN "wifi"
             ELSE IF last_raw.type \in {"BR/EDR", "BTLE"} THEN "bluetooth"
             ELSE "unknown"
       /\ last_raw.type = "BR/EDR" => last_emitted.bt_type = "classic"
       /\ last_raw.type = "BTLE" => last_emitted.bt_type = "ble"

(***************************************************************************)
(* Wi-Fi fingerprint: extract_capabilities, compute_fingerprint,            *)
(* fingerprint_from_probe and correlate_randomized_macs                     *)
(***************************************************************************)
RateValues == {6, 12}

\* Vendor IEs: the WPS element, another element of the same vendor, and an
\* element of another vendor.
WpsIe == [oui |-> "00:50:f2", type |-> "4"]
WmmIe == [oui |-> "00:50:f2", type |-> "2"]
AppleIe == [oui |-> "00:17:f2", type |-> "10"]

\* The capability elements of a probe request: two that differ only in the
\* order of their lists, one with the same OUIs but no WPS element, one
\* with HT capabilities, and one with fewer rates and no vendor element.
ProbeElements ==
    {[supported_rates |-> <<6, 12>>, ht_capabilities |-> NULL,
      vendor_ies |-> <<WpsIe, AppleIe>>],
     [supported_rates |-> <<12, 6>>, ht_capabilities |-> NULL,
      vendor_ies |-> <<AppleIe, WpsIe>>],
     [supported_rates |-> <<6, 12>>, ht_capabilities |-> NULL,
      vendor_ies |-> <<WmmIe, AppleIe>>],
     [supported_rates |-> <<6, 12>>, ht_capabilities |-> "01",
      vendor_ies |-> <<WpsIe, AppleIe>>],
     [supported_rates |-> <<6>>, ht_capabilities |-> NULL,
      vendor_ies |-> << >>]}

\* What a probe request carries.
Probes ==
    {[mac |-> m, ssid |-> n, supported_rates |-> e.supported_rates,
      ht_capabilities |-> e.ht_capabilities, vht_capabilities |-> NULL,
      vendor_ies |-> e.vendor_ies] :
        m \in WifiMacs, n \in {"", "home"}, e \in ProbeElements}

\* int(text, 16) on the capability strings that occur.
HexInt(text) == IF text = "01" THEN 1 ELSE 0

\* extract_capabilities (called without extended rates).
ExtractCapabilities(supported_rates, ht_capabilities, vht_capabilities, vendor_ies) ==
    [supported_rates |-> supported_rates,
     extended_rates |-> << >>,
     ht_supported |-> ht_capabilities /= NULL,
     ht_capabilities |-> IF ht_capabilities /= NULL
                         THEN HexInt(ht_capabilities) ELSE 0,
     vht_supported |-> vht_capabilities /= NULL,
     vht_capabilities |-> IF vht_capabilities /= NULL
                          THEN HexInt(vht_capabilities) ELSE 0,
     he_supported |-> FALSE,
     vendor_ies |-> vendor_ies,
     wps_enabled |-> \E i \in DOMAIN vendor_ies :
                        vendor_ies[i].oui = "00:50:f2"
                           /\ vendor_ies[i].type = "4"]

\* Mutation of SortedRates: the rates are hashed in the order given.
SortedRates_AsGiven(rates) == rates

\* sorted(rates)
SortedRates(rates) == SortSeq(rates, LAMBDA a, b : a < b)

\* compute_fingerprint: the canonical feature dictionary.  A sorted list
\* of distinct strings is written as the set it lists; the probe_ssids key
\* is present only for a list that is not empty.  The SHA-256 of the
\* canonical JSON text is taken to be collision-free, so the hash is written
\* as the dictionary itself.
ComputeFingerprint(capabilities, probe_ssids) ==
    [rates |-> SortedRates(capabilities.supported_rates
                              \o capabilities.extended_rates),
     ht |-> capabilities.ht_supported,
     ht_caps |-> capabilities.ht_capabilities,
     vht |-> capabilities.vht_supported,
     vht_caps |-> capabilities.vht_capabilities,
     he |-> capabilities.he_supported,
     wps |-> capabilities.wps_enabled,
     vendor_ouis |-> {capabilities.vendor_ies[i].oui :
                         i \in DOMAIN capabilities.vendor_ies} \ {""},
     probe_ssids |-> IF probe_ssids /= {}
                     THEN [present |-> TRUE, ssids |-> probe_ssids \ {""}]
                     ELSE [present |-> FALSE, ssids |-> {}]]

\* fingerprint_from_probe: the profile of the MAC records the SSID (when
\* not empty) and the capabilities, and the hash computed from both is
\* cached under the MAC.
FingerprintFromProbe(probe) ==
    LET profile == probe_profiles[probe.mac]
        ssids == IF probe.ssid /= "" THEN profile.probed_ssids \cup {probe.ssid}
                 ELSE profile.probed_ssids
        caps == ExtractCapabilities(probe.supported_rates,
                                    probe.ht_capabilities,
                                    probe.vht_capabilities, probe.vendor_ies)
    IN  /\ probe_profiles' = [probe_profiles EXCEPT ![probe.mac] =
                                 [exists |-> TRUE, probed_ssids |-> ssids,
                                  capabilities |-> caps]]
        /\ fingerprint_cache' = [fingerprint_cache EXCEPT ![probe.mac] =
                                    ComputeFingerprint(caps, ssids)]
        /\ groups' = NoGroups
        /\ UNCHANGED nonWifiVars

\* is_likely_randomized_mac: the locally-administered bit (0x02) of the
\* second hex digit.
IsLikelyRandomizedMac(mac) == (mac[2] \div 2) % 2 = 1

\* WiFiFingerprinter.correlate_randomized_macs(fingerprints): the
\* randomized MACs of the given MAC -> hash dictionary, grouped by hash.
CorrelateByFingerprint(fps) ==
    LET randomized == {m \in DOMAIN fps : IsLikelyRandomizedMac(m)}
    IN  [fp \in {fps[m] : m \in randomized} |->
            {m \in randomized : fps[m] = fp}]

\* FingerprintEngine.correlate_randomized_macs(): the dictionary it hands
\* to the fingerprinter is the empty local all_fps.
CorrelateRandomizedMacs ==
    /\ groups' = [called |-> TRUE,
                  result |-> CorrelateByFingerprint([m \in {} |-> NoHash])]
    /\ UNCHANGED <<probe_profiles, fingerprint_cache, nonWifiVars>>

WifiNext ==
    \/ \E probe \in Probes : FingerprintFromProbe(probe)
    \/ CorrelateRandomizedMacs

WifiSpec == StoreSpecInit /\ [][WifiNext]_vars

\* The feature vector of the latest observation of a MAC, with lists
\* compared after sorting: how often each rate occurs, the HT/VHT/HE flags
\* and capability words, the WPS flag, the set of vendor OUIs and the set of
\* probed SSIDs.
FeatureVector(mac) ==
    LET c == probe_profiles[mac].capabilities
        all_rates == c.supported_rates \o c.extended_rates
    IN  [rates |-> [r \in RateValues |->
                       Cardinality({i \in DOMAIN all_rates : all_rates[i] = r})],
         ht |-> <<c.ht_supported, c.ht_capabilities>>,
         vht |-> <<c.vht_supported, c.vht_capabilities>>,
         he |-> c.he_supported,
         wps |-> c.wps_enabled,
         ouis |-> {c.vendor_ies[i].oui : i \in DOMAIN c.vendor_ies},
         ssids |-> probe_profiles[mac].probed_ssids]

\* C26: two Wi-Fi observations receive the same fingerprint hash iff their
\* feature vectors are identical after sorting; the MAC address, the RSSI,
\* the timestamp and the order of list elements, which are no part of the
\* feature vector, make no difference.
C26_SameHashIffSameFeatures ==
    \A m1, m2 \in WifiMacs :
       (probe_profiles[m1].exists /\ probe_profiles[m2].exists) =>
          (fingerprint_cache[m1] = fingerprint_cache[m2]
              <=> FeatureVector(m1) = FeatureVector(m2))

\* C26 witness: two MACs were observed with the same rates and vendor
\* elements in different orders and have the same hash.
C26_Witness ==
    LET a == <<0, 2, 1>>
        b == <<15, 10, 3>>
    IN  /\ probe_profiles[a].exists
        /\ probe_profiles[b].exists
        /\ probe_profiles[a].capabilities.supported_rates = <<6, 12>>
        /\ probe_profiles[b].capabilities.supported_rates = <<12, 6>>
        /\ probe_profiles[a].capabilities.vendor_ies = <<WpsIe, AppleIe>>
        /\ probe_profiles[b].capabilities.vendor_ies = <<AppleIe, WpsIe>>
        /\ probe_profiles[a].probed_ssids = {"home"}
        /\ fingerprint_cache[a] = fingerprint_cache[b]

\* C27: once the engine has fingerprinted probes from several
\* locally-administered MACs with identical rates, capabilities and SSIDs,
\* the result of correlate_randomized_macs() has a group keyed by their
\* common hash that contains all of those MACs.
C27_RandomizedMacsGrouped ==
    groups.called =>
       \A m1, m2 \in WifiMacs :
          (/\ m1 /= m2
           /\ IsLikelyRandomizedMac(m1) /\ IsLikelyRandomizedMac(m2)
           /\ probe_profiles[m1].exists /\ probe_profiles[m2].exists
           /\ fingerprint_cache[m1] = fingerprint_cache[m2])
          => /\ fingerprint_cache[m1] \in DOMAIN groups.result
             /\ {m1, m2} \subseteq groups.result[fingerprint_cache[m1]]

(***************************************************************************)
(* Channel hopper: set_mode, set_active_source, lock_channel and            *)
(* update_adaptive_rate, called from the orchestrator's main loop           *)
(***************************************************************************)
MaxTicks == 2

\* Rates are written in eighths of a channel per second, so that the
\* interpolation over the 8 m/s between the two thresholds stays integral.
Rate8(rate) == 8 * rate

HopModes == {"fast", "slow", "adaptive", "lock"}

\* The channel_hopping section of the configuration.
HopConfigs ==
    [fast_rate : {10}, slow_rate : {2}, default_mode : HopModes \cup {"turbo"}]
        \cup [fast_rate : {5}, slow_rate : {1}, default_mode : {"adaptive"}]

\* Speeds of the GPS position in m/s.
Speeds == {0, 1, 2, 3, 6, 9, 10, 12}

\* get_velocity: the speed of a valid current position, else 0.
GetVelocity == IF velocity.valid THEN velocity.speed ELSE 0

\* KismetController.set_hop_channels(source, all channels, rate)
SetHopChannels(rate8) == [op |-> "set_hop", rate8 |-> rate8]

\* set_mode: an unknown mode is refused; with no active source only the
\* mode is recorded; otherwise the mode is applied to the source.
ModeOp(h, mode) ==
    IF ~h.active_source THEN NoOp
    ELSE IF mode = "fast" THEN SetHopChannels(Rate8(h.fast_rate))
    ELSE IF mode = "slow" THEN SetHopChannels(Rate8(h.slow_rate))
    ELSE IF mode = "adaptive" THEN SetHopChannels(Rate8(h.adaptive_rate))
    ELSE [op |-> "disable_hop", rate8 |-> 0]

SetModeOn(h, mode) ==
    IF mode \notin HopModes THEN h ELSE [h EXCEPT !.mode = mode]

\* _init_kismet: the hopper is built with the orchestrator's GPS logger
\* (None when GPS is disabled or failed before it was created) and the
\* configured rates, then set_mode(default_mode) is called.
CreateHopper(config, gps_logger) ==
    /\ ~hopper.created
    /\ hopper' = SetModeOn([created |-> TRUE,
                            gps_logger |-> gps_logger,
                            fast_rate |-> config.fast_rate,
                            slow_rate |-> config.slow_rate,
                            adaptive_rate |-> 5,
                            mode |-> "adaptive",
                            active_source |-> FALSE],
                           config.default_mode)
    /\ hop_op' = NoOp
    /\ UNCHANGED <<velocity, ticks, nonHopVars>>

SetMode(mode) ==
    /\ hopper.created
    /\ hopper' = SetModeOn(hopper, mode)
    /\ hop_op' = IF mode \in HopModes THEN ModeOp(hopper, mode) ELSE NoOp
    /\ UNCHANGED <<velocity, ticks, nonHopVars>>

SetActiveSource ==
    /\ hopper.created
    /\ hopper' = [hopper EXCEPT !.active_source = TRUE]
    /\ hop_op' = NoOp
    /\ UNCHANGED <<velocity, ticks, nonHopVars>>

\* lock_channel: refused without an active source.
LockChannel ==
    /\ hopper.created
    /\ IF ~hopper.active_source
       THEN /\ hop_op' = NoOp
            /\ UNCHANGED hopper
       ELSE /\ hopper' = [hopper EXCEPT !.mode = "lock"]
            /\ hop_op' = [op |-> "set_channel", rate8 |-> 0]
    /\ UNCHANGED <<velocity, ticks, nonHopVars>>

\* Mutation of AdaptiveRate8: the interpolation starts at 0 m/s instead of
\* at the lower threshold.
AdaptiveRate8_FromZero(h, speed) ==
    IF speed > 10 THEN Rate8(h.fast_rate)
    ELSE IF speed < 2 THEN Rate8(h.slow_rate)
    ELSE Rate8(h.slow_rate) + speed * (h.fast_rate - h.slow_rate)

\* The rate update_adaptive_rate computes:
\* slow_rate + (speed - 2.0) / 8.0 * (fast_rate - slow_rate) between the
\* thresholds.
AdaptiveRate8(h, speed) ==
    IF speed > 10 THEN Rate8(h.fast_rate)
    ELSE IF speed < 2 THEN Rate8(h.slow_rate)
    ELSE Rate8(h.slow_rate) + (speed - 2) * (h.fast_rate - h.slow_rate)

\* One round of _main_loop as far as the hopper goes: with a hopper,
\* update_adaptive_rate() is called; it returns at once unless the mode is
\* adaptive and a GPS logger is attached, and sends the rate only to an
\* active source.
UpdateAdaptiveRate ==
    /\ ticks < MaxTicks
    /\ ticks' = ticks + 1
    /\ hop_op' = IF /\ hopper.created
                    /\ hopper.mode = "adaptive"
                    /\ hopper.gps_logger
                    /\ hopper.active_source
                 THEN SetHopChannels(AdaptiveRate8(hopper, GetVelocity))
                 ELSE NoOp
    /\ UNCHANGED <<hopper, velocity, nonHopVars>>

\* The GPS logger's current position changes.
GpsVelocity(valid, speed) ==
    /\ velocity' = [valid |-> valid, speed |-> speed]
    /\ velocity' /= velocity
    /\ UNCHANGED <<hopper, hop_op, ticks, nonHopVars>>

HopNext ==
    \/ \E config \in HopConfigs, gps_logger \in BOOLEAN :
          CreateHopper(config, gps_logger)
    \/ \E mode \in HopModes \cup {"turbo"} : SetMode(mode)
    \/ SetActiveSource
    \/ LockChannel
    \/ UpdateAdaptiveRate
    \/ \E valid \in BOOLEAN, speed \in Speeds : GpsVelocity(valid, speed)

HopSpec == StoreSpecInit /\ [][HopNext]_vars

\* The rate the policy names for a speed: slow_rate up to 2 m/s, fast_rate
\* from 10 m/s, the linear interpolation in between.
PolicyRate8(h, speed) ==
    IF speed <= 2 THEN Rate8(h.slow_rate)
    ELSE IF speed >= 10 THEN Rate8(h.fast_rate)
    ELSE Rate8(h.slow_rate) + (speed - 2) * (h.fast_rate - h.slow_rate)

\* What a tick has to issue according to the policy, given whether the
\* hopper is in the case where an update is due.
TickIssues(due) ==
    ticks' = ticks + 1 =>
       IF due
       THEN /\ hop_op'.op = "set_hop"
            /\ hop_op'.rate8 = PolicyRate8(hopper, GetVelocity)
            /\ hop_op'.rate8 >= Rate8(hopper.slow_rate)
            /\ hop_op'.rate8 <= Rate8(hopper.fast_rate)
       ELSE hop_op' = NoOp

\* C28 as stated: each tick made while mode = adaptive and a source is bound
\* issues a hop-rate update whose rate is slow_rate for speed <= 2 m/s,
\* fast_rate for speed >= 10 m/s and the linear interpolation in between,
\* hence within [slow_rate, fast_rate]; a tick in any other mode, or with no
\* source bound, issues no control operation.
C28_TickAdaptiveAndSource ==
    [][TickIssues(/\ hopper.created
                  /\ hopper.mode = "adaptive"
                  /\ hopper.active_source)]_vars

\* C28 amended: the update is issued on each tick made while mode =
\* adaptive, a GPS logger is attached and a source is bound, with the rate
\* of the policy; a tick in any other mode, without a GPS logger or with no
\* source bound issues no control operation.
C28_TickAdaptiveGpsAndSource ==
    [][TickIssues(/\ hopper.created
                  /\ hopper.mode = "adaptive"
                  /\ hopper.gps_logger
                  /\ hopper.active_source)]_vars

\* C28 witness: a tick at a speed between the thresholds has issued the
\* interpolated rate.
C28_Witness ==
    /\ ticks > 0
    /\ hopper.created
    /\ hopper.mode = "adaptive"
    /\ velocity = [valid |-> TRUE, speed |-> 6]
    /\ hop_op = SetHopChannels(Rate8(hopper.slow_rate)
                                  + 4 * (hopper.fast_rate - hopper.slow_rate))

(***************************************************************************)
(* Scan sessions: create_session, end_session and update_session            *)
(***************************************************************************)
\* ScanStatus
ScanStatuses == {"running", "stopped", "error", "starting", "stopping"}

\* What the callers pass as a time: None or a datetime.
SessionTimes == {PyNone, PyDatetime(1), PyDatetime(2)}

\* datetime.utcnow() of the calls made here.
SessionNow == PyDatetime(3)

\* create_session: INSERT of the session's id and status; end_time is left
\* NULL.  The UNIQUE session_id refuses a second row: the transaction is
\* rolled back and the error raised.
CreateSessionRow(session_id, status) ==
    /\ scan_sessions' =
          IF scan_sessions[session_id] = NoSessionRow
          THEN [scan_sessions EXCEPT ![session_id] =
                   [status |-> <<"str", status>>, end_time |-> PyNone]]
          ELSE scan_sessions
    /\ session_call' = [op |-> "create_session", session_id |-> session_id]
    /\ UNCHANGED nonSessVars

\* end_session: UPDATE scan_sessions SET end_time = ? WHERE session_id = ?
EndSession(session_id, end_time) ==
    LET at == IF end_time = PyNone THEN SessionNow ELSE end_time
    IN  /\ scan_sessions' =
              IF scan_sessions[session_id] = NoSessionRow THEN scan_sessions
              ELSE [scan_sessions EXCEPT ![session_id].end_time = Isoformat(at)]
        /\ session_call' = [op |-> "end_session", session_id |-> session_id]
        /\ UNCHANGED nonSessVars

\* update_session: UPDATE ... SET end_time = ?, status = ?, ... with the
\* values of the ScanSession object.
UpdateSession(session_id, status, end_time) ==
    /\ scan_sessions' =
          IF scan_sessions[session_id] = NoSessionRow THEN scan_sessions
          ELSE [scan_sessions EXCEPT ![session_id] =
                   [status |-> <<"str", status>>,
                    end_time |-> IF end_time = PyNone THEN PyNone
                                 ELSE Isoformat(end_time)]]
    /\ session_call' = [op |-> "update_session", session_id |-> session_id]
    /\ UNCHANGED nonSessVars

SessNext ==
    \/ \E id \in SessionIds, status \in ScanStatuses :
          CreateSessionRow(id, status)
    \/ \E id \in SessionIds, end_time \in SessionTimes :
          EndSession(id, end_time)
    \/ \E id \in SessionIds, status \in ScanStatuses,
          end_time \in SessionTimes : UpdateSession(id, status, end_time)

SessSpec == StoreSpecInit /\ [][SessNext]_vars

\* C29: after end_session has been called for a session, that session's
\* row has status "stopped" and its end_time set.
C29_EndedSessionIsStopped ==
    (/\ session_call.op = "end_session"
     /\ scan_sessions[session_call.session_id] /= NoSessionRow)
    => /\ scan_sessions[session_call.session_id].status = <<"str", "stopped">>
       /\ scan_sessions[session_call.session_id].end_time /= PyNone

(***************************************************************************)
(* Per-device ordering of the upserts one producer hands to the store      *)
(***************************************************************************)
\* Only task t has ever called insert_*_device: the calls reach the store
\* one after the other, as under the engine lock.
OnlyProducer(t) ==
    \A u \in Tasks \ {t} : pc[u] = "idle" /\ result[u] = "none"

\* The last_seen of the row a table holds for the record's (session_id,
\* device_key), -1 when there is no row.  The producer stamps its records
\* with the time of the call, so a larger stamp is a later upsert.
LastSeenOf(tbls, d) ==
    LET id == SelectExisting(tbls[d.kind], d)
    IN  IF id = 0 THEN -1 ELSE tbls[d.kind][id].last_seen

\* C30: for any (session_id, device_key) the store applies the upserts of
\* the one producer in the order in which they were produced: an upsert
\* that returns True has left its observation in the row, no step moves a
\* row back to an earlier observation, and when the buffer files are
\* replayed every buffered upsert is applied unless the row already holds
\* a later one.
C30_AppliedInProducedOrder ==
    [][(OnlyProducer("t1") /\ OnlyProducer("t1")') =>
          /\ (Returns("t1") /\ result'["t1"] = "true") =>
                LastSeenOf(tables', cur["t1"]) = cur["t1"].last_seen[2]
          /\ \A kind \in Kinds :
                \A i \in DOMAIN tables[kind] :
                   tables'[kind][i].last_seen >= tables[kind][i].last_seen
          /\ (DOMAIN bufFiles /= {} /\ DOMAIN bufFiles' = {}) =>
                \A line \in LinesOf(bufFiles) :
                   LastSeenOf(tables', line) >= line.last_seen[2]]_vars

(***************************************************************************)
(* One Database object used by several threads: connect(), transaction()   *)
(* and close() on the single sqlite3 connection                            *)
(***************************************************************************)
MaxTxns == 3

\* sqlite3.connect() with its defaults: every call on the connection made by
\* a thread other than its creator raises sqlite3.ProgrammingError.
OwnedBy(th) == shConn.owner = th

\* with self.transaction() as conn: connect() returns the connection there
\* is, or creates one on the calling thread; the body is entered.
ShBegin(th) ==
    /\ shPc[th] = 0
    /\ Len(shOutcome) < MaxTxns
    /\ shConn' = IF shConn.owner = "none" THEN [shConn EXCEPT !.owner = th]
                 ELSE shConn
    /\ shOutcome' = Append(shOutcome, "open")
    /\ shPc' = [shPc EXCEPT ![th] = Len(shOutcome) + 1]
    /\ UNCHANGED <<shCommitted, nonSharedVars>>

\* conn.execute(...) in the body.  On the creating thread the write is
\* pending on the connection.  On any other thread it raises
\* ProgrammingError, and so does the conn.rollback() of the except clause:
\* the call ends with the exception and the connection is as it was.
ShExecute(th) ==
    /\ shPc[th] /= 0
    /\ IF OwnedBy(th)
       THEN /\ Len(shConn.pending) < MaxStatements
            /\ shConn' = [shConn EXCEPT !.pending = Append(@, shPc[th])]
            /\ UNCHANGED <<shPc, shOutcome>>
       ELSE /\ shOutcome' = [shOutcome EXCEPT ![shPc[th]] = "refused"]
            /\ shPc' = [shPc EXCEPT ![th] = 0]
            /\ UNCHANGED shConn
    /\ UNCHANGED <<shCommitted, nonSharedVars>>

\* A statement of the body fails on the creating thread: conn.rollback()
\* discards what is pending on the connection and the exception is raised.
ShRaise(th) ==
    /\ shPc[th] /= 0
    /\ OwnedBy(th)
    /\ shConn' = [shConn EXCEPT !.pending = << >>]
    /\ shOutcome' = [shOutcome EXCEPT ![shPc[th]] = "rolled_back"]
    /\ shPc' = [shPc EXCEPT ![th] = 0]
    /\ UNCHANGED <<shCommitted, nonSharedVars>>

\* The body ends after its statements: conn.commit() writes what is
\* pending on the connection.
ShCommit(th) ==
    /\ shPc[th] /= 0
    /\ OwnedBy(th)
    /\ shConn.pending /= << >>
    /\ shCommitted' = shCommitted \o shConn.pending
    /\ shConn' = [shConn EXCEPT !.pending = << >>]
    /\ shOutcome' = [shOutcome EXCEPT ![shPc[th]] = "committed"]
    /\ shPc' = [shPc EXCEPT ![th] = 0]
    /\ UNCHANGED nonSharedVars

\* close() on the creating thread (on another thread connection.close()
\* raises and _connection stays set).
ShClose(th) ==
    /\ shPc[th] = 0
    /\ OwnedBy(th)
    /\ shConn' = [owner |-> "none", pending |-> << >>]
    /\ UNCHANGED <<shPc, shOutcome, shCommitted, nonSharedVars>>

SharedNext ==
    \E th \in StoreThreads :
       \/ ShBegin(th) \/ ShExecute(th) \/ ShRaise(th) \/ ShCommit(th)
       \/ ShClose(th)

SharedSpec == StoreSpecInit /\ [][SharedNext]_vars

\* The writes of transaction txn in a sequence of writes.
ShWritesOf(writes, txn) ==
    LET Own(w) == w = txn IN SelectSeq(writes, Own)

\* C31: store mutations issued concurrently by different tasks are
\* serialised on the single connection: each task's transaction is carried
\* out on it (none is turned away), the pending statements never mix two
\* transactions, a commit or rollback touches only the statements of its
\* own transaction, and the transactions are committed in the order in
\* which they were submitted.
C31_SerialisedOnOneConnection ==
    /\ [](\A i \in DOMAIN shOutcome : shOutcome[i] /= "refused")
    /\ [](\A i, j \in DOMAIN shConn.pending :
             shConn.pending[i] = shConn.pending[j])
    /\ [](\A i, j \in DOMAIN shCommitted :
             i < j => shCommitted[i] <= shCommitted[j])
    /\ [][\A th \in StoreThreads :
             (shPc[th] /= 0 /\ shPc'[th] = 0) =>
                /\ shCommitted' \in
                      {shCommitted,
                       shCommitted \o ShWritesOf(shConn.pending, shPc[th])}
                /\ ShWritesOf(shConn'.pending, shPc[th]) = << >>
                /\ \A txn \in DOMAIN shOutcome \ {shPc[th]} :
                      ShWritesOf(shConn'.pending, txn)
                         = ShWritesOf(shConn.pending, txn)]_vars

(***************************************************************************)
(* Fingerprint engine under its lock: process_wifi_probe,                  *)
(* process_bluetooth_device and clear_cache, statement by statement        *)
(***************************************************************************)
MaxEngCalls == 3

\* What a call is given: a probe of one MAC for an SSID (with one set of
\* capability elements), a Bluetooth device of a class, or nothing.
EngCallArgs ==
    [kind : {"wifi"}, mac : EngMacs, ssid : {"home", "work"}, device_class : {0}]
       \cup [kind : {"bt"}, mac : EngMacs, ssid : {""}, device_class : {0, 1}]
       \cup [kind : {"clear"}, mac : {<<0, 2, 1>>}, ssid : {""},
             device_class : {0}]

\* extract_capabilities of the probe a wifi call is given.
EngCaps == ExtractCapabilities(<<6, 12>>, NULL, NULL, << >>)

\* BluetoothFingerprinter.compute_fingerprint: the hash of the features of
\* the capabilities, which are those of the call's own sample.
BtFingerprint(device_class) ==
    [device_class |-> device_class, service_uuids |-> {}, is_ble |-> FALSE,
     is_classic |-> TRUE, manufacturer_id |-> NULL, tx_power |-> NULL]

\* A thread enters process_wifi_probe / process_bluetooth_device /
\* clear_cache; what precedes the with statement touches no engine state.
EngBegin(th, args) ==
    /\ engCall[th].pc = "idle"
    /\ engCalls < MaxEngCalls
    /\ engCalls' = engCalls + 1
    /\ engCall' = [engCall EXCEPT ![th] =
                      [pc |-> "acquire", args |-> args, base |-> {},
                       fingerprint |-> NoHash, notified |-> NoHash]]
    /\ UNCHANGED <<engine_lock, bt_cache, nonLockVars>>

\* Mutation of LockFree: the with statement does not wait for the lock.
LockFree_NotAwaited == TRUE

\* threading.Lock.acquire() returns only while no thread holds the lock.
LockFree == engine_lock = "none"

\* with self._lock: the thread takes the lock.  `base` notes the SSIDs the
\* profile of the MAC holds at this moment.
EngAcquire(th) ==
    /\ engCall[th].pc = "acquire"
    /\ LockFree
    /\ engine_lock' = th
    /\ engCall' = [engCall EXCEPT
          ![th].pc = IF engCall[th].args.kind = "clear" THEN "clear_wifi"
                     ELSE "profile",
          ![th].base = probe_profiles[engCall[th].args.mac].probed_ssids]
    /\ UNCHANGED <<bt_cache, engCalls, nonLockVars>>

\* fingerprint_from_probe / fingerprint_device up to profile.capabilities =
\* caps: the profile of the MAC takes the sample in.
EngProfile(th) ==
    LET a == engCall[th].args
    IN  /\ engCall[th].pc = "profile"
        /\ IF a.kind = "wifi"
           THEN probe_profiles' = [probe_profiles EXCEPT ![a.mac] =
                   [exists |-> TRUE,
                    probed_ssids |-> @.probed_ssids \cup {a.ssid},
                    capabilities |-> EngCaps]]
           ELSE UNCHANGED probe_profiles
        /\ engCall' = [engCall EXCEPT ![th].pc = "hash"]
        /\ UNCHANGED <<engine_lock, bt_cache, engCalls, fingerprint_cache,
                       groups, nonWifiLockVars>>

\* compute_fingerprint(caps, list(profile.probed_ssids)) for a probe,
\* compute_fingerprint(caps) for a Bluetooth device; the hash is cached
\* under the MAC and kept as the call's `fingerprint`.
EngHash(th) ==
    LET a == engCall[th].args
        fp == IF a.kind = "wifi"
              THEN ComputeFingerprint(EngCaps,
                                      probe_profiles[a.mac].probed_ssids)
              ELSE BtFingerprint(a.device_class)
    IN  /\ engCall[th].pc = "hash"
        /\ IF a.kind = "wifi"
           THEN /\ fingerprint_cache' = [fingerprint_cache EXCEPT ![a.mac] = fp]
                /\ UNCHANGED bt_cache
           ELSE /\ bt_cache' = [bt_cache EXCEPT ![a.mac] = fp]
                /\ UNCHANGED fingerprint_cache
        /\ engCall' = [engCall EXCEPT ![th].pc = "notify",
                                      ![th].fingerprint = fp]
        /\ UNCHANGED <<engine_lock, engCalls, probe_profiles, groups,
                       nonWifiLockVars>>

\* for callback in self._callbacks: callback(kind, fingerprint, sig_data)
EngNotify(th) ==
    /\ engCall[th].pc = "notify"
    /\ engCall' = [engCall EXCEPT ![th].pc = "release",
                                  ![th].notified = engCall[th].fingerprint]
    /\ UNCHANGED <<engine_lock, bt_cache, engCalls, nonLockVars>>

\* clear_cache: self.wifi.clear_cache()
EngClearWifi(th) ==
    /\ engCall[th].pc = "clear_wifi"
    /\ probe_profiles' = [m \in WifiMacs |-> NoProfile]
    /\ fingerprint_cache' = [m \in WifiMacs |-> NoHash]
    /\ engCall' = [engCall EXCEPT ![th].pc = "clear_bt"]
    /\ UNCHANGED <<engine_lock, bt_cache, engCalls, groups,
                   nonWifiLockVars>>

\* clear_cache: self.bluetooth.clear_cache()
EngClearBt(th) ==
    /\ engCall[th].pc = "clear_bt"
    /\ bt_cache' = [m \in EngMacs |-> NoHash]
    /\ engCall' = [engCall EXCEPT ![th].pc = "release"]
    /\ UNCHANGED <<engine_lock, engCalls, nonLockVars>>

\* The with block ends: the lock is released and the call returns
\* `fingerprint`.
EngRelease(th) ==
    /\ engCall[th].pc = "release"
    /\ engine_lock' = "none"
    /\ engCall' = [engCall EXCEPT ![th].pc = "idle"]
    /\ UNCHANGED <<bt_cache, engCalls, nonLockVars>>

LockNext ==
    \/ \E th \in EngThreads, args \in EngCallArgs : EngBegin(th, args)
    \/ \E th \in EngThreads :
          \/ EngAcquire(th) \/ EngProfile(th) \/ EngHash(th)
          \/ EngNotify(th) \/ EngClearWifi(th) \/ EngClearBt(th)
          \/ EngRelease(th)

LockSpec == StoreSpecInit /\ [][LockNext]_vars

\* The hash of the profile state that holds what the profile held when the
\* call took its turn and exactly the call's own sample.
OwnHash(c) ==
    IF c.args.kind = "wifi"
    THEN ComputeFingerprint(EngCaps, c.base \cup {c.args.ssid})
    ELSE BtFingerprint(c.args.device_class)

\* C32: under any interleaving of concurrent probe, Bluetooth-device and
\* reset calls, the hash a call passes to the callbacks and returns is the
\* one computed from the profile state that includes exactly that call's
\* sample.
C32_HashOfOwnSample ==
    \A th \in EngThreads :
       LET c == engCall[th]
       IN  /\ (c.pc \in {"notify", "release"} /\ c.args.kind /= "clear")
                => c.fingerprint = OwnHash(c)
           /\ (c.pc = "release" /\ c.args.kind /= "clear")
                => c.notified = c.fingerprint

\* C32 witness: a probe call is about to return its hash while the other
\* thread, which asks for the same MAC, waits for the lock.
C32_Witness ==
    /\ engCall["a"].pc = "release"
    /\ engCall["a"].args.kind = "wifi"
    /\ engCall["a"].base = {"work"}
    /\ engCall["b"].pc = "acquire"
    /\ engCall["b"].args.kind = "wifi"
    /\ engCall["b"].args.mac = engCall["a"].args.mac

(***************************************************************************)
(* New-device events during start() (scan_orchestrator.py 174-189,         *)
(* 300-345, 461-472; kismet_controller.py 384-441)                         *)
(***************************************************************************)
MaxEvents == 3

DeviceTypes == {"wifi", "bluetooth", "unknown"}

\* _init_kismet: the callbacks are registered and KismetController.start()
\* starts the polling thread; on any failure start() continues without it.
EvInitKismet ==
    /\ evPc = "init_kismet"
    /\ \E ok \in BOOLEAN : kismet_running' = ok
    /\ evPc' = "init_tshark"
    /\ UNCHANGED <<fingerprint_engine, orch_stats, newDevices, nonEvVars>>

\* _init_tshark: the capture is started or not; start() continues.
EvInitTshark ==
    /\ evPc = "init_tshark"
    /\ evPc' = "init_fingerprinting"
    /\ UNCHANGED <<fingerprint_engine, kismet_running, orch_stats, newDevices,
                   nonEvVars>>

\* _init_fingerprinting: the engine attribute is assigned.
EvInitFingerprinting ==
    /\ evPc = "init_fingerprinting"
    /\ fingerprint_engine' = TRUE
    /\ evPc' = "init_power_monitor"
    /\ UNCHANGED <<kismet_running, orch_stats, newDevices, nonEvVars>>

\* _init_power_monitor, then line 189: _running = True.
EvInitPowerMonitor ==
    /\ evPc = "init_power_monitor"
    /\ evPc' = "running"
    /\ UNCHANGED <<fingerprint_engine, kismet_running, orch_stats, newDevices,
                   nonEvVars>>

\* _poll_devices finds a device it has not seen and calls _on_new_device:
\* the counter of the device's type is incremented, and the device is
\* processed by the engine if the engine attribute is set.
OnNewDevice(device_type) ==
    /\ kismet_running
    /\ Len(newDevices) < MaxEvents
    /\ orch_stats' =
          IF device_type = "wifi"
          THEN [orch_stats EXCEPT !.wifi_devices = @ + 1]
          ELSE IF device_type = "bluetooth"
          THEN [orch_stats EXCEPT !.bt_devices = @ + 1]
          ELSE orch_stats
    /\ newDevices' = Append(newDevices,
                            [device_type |-> device_type,
                             at |-> evPc,
                             counted |-> orch_stats' /= orch_stats,
                             processed |-> fingerprint_engine])
    /\ UNCHANGED <<evPc, fingerprint_engine, kismet_running, nonEvVars>>

EvNext ==
    \/ EvInitKismet
    \/ EvInitTshark
    \/ EvInitFingerprinting
    \/ EvInitPowerMonitor
    \/ \E t \in DeviceTypes : OnNewDevice(t)

EvSpec == StoreSpecInit /\ [][EvNext]_vars

\* C33: every new-device event the poller emits during a scan, also one
\* emitted while start() is still initialising later components, is passed
\* to the fingerprint engine and counted in the statistics.
C33_EveryNewDeviceProcessedAndCounted ==
    \A i \in 1..Len(newDevices) :
       newDevices[i].processed /\ newDevices[i].counted

\* C34: whenever start() returns failure, no component task started during
\* that attempt is left running and the store connection is not left open.
C34_FailedStartLeavesNothingBehind ==
    (mainPc = "start_returned" /\ startResult = "false")
       => /\ \A c \in {"gps", "kismet", "tshark", "power"} :
                comp[c] /= "started"
          /\ ~pmRunning
          /\ connection = "none"

\* C35: a failure in an earlier shutdown step does not prevent stop() from
\* performing the remaining steps: a stop() that got past its guard ends
\* only after its last step, the interface restore and the clearing of the
\* global included.
C35_StopRunsToItsLastStep ==
    [][\A c \in Contexts :
          (/\ stopPc[c] \in {"set", "power", "tshark", "kismet", "gps",
                             "session", "flush", "close", "restore", "clear"}
           /\ stopPc'[c] \in {"returned", "raised"})
             => (stopPc[c] = "clear" /\ stopPc'[c] = "returned")]_vars

(***************************************************************************)
(* The store after stop() (scan_orchestrator.py 444-459, 530-547;          *)
(* gps_logger.py 162-216; database.py 247-300)                             *)
(***************************************************************************)
MaxGpsWrites == 5

\* _poll_loop: the loop test, then _update_position fetches a position.
GpsLoopTest ==
    /\ gps_thread = "loop"
    /\ gps_thread' = IF gps_logger_running THEN "update" ELSE "exited"
    /\ UNCHANGED <<store_connection, stop_step, gps_logger_running, fix_count,
                   rows_written, closed_by_stop, written_after_close,
                   nonCloseVars>>

\* _update_position: gpsd answers (after any delay) with a valid or an
\* invalid position, and the callbacks are invoked with it.
GpsFetch ==
    /\ gps_thread = "update"
    /\ \E valid \in BOOLEAN :
          gps_thread' = IF valid THEN "callback" ELSE "loop"
    /\ UNCHANGED <<store_connection, stop_step, gps_logger_running, fix_count,
                   rows_written, closed_by_stop, written_after_close,
                   nonCloseVars>>

\* _on_gps_update -> insert_gps_point -> transaction() -> connect(): a
\* store without connection gets a new one, created by the calling thread;
\* a connection created by another thread raises sqlite3.ProgrammingError,
\* which _update_position catches.
GpsCallbackWrite ==
    /\ gps_thread = "callback"
    /\ fix_count < MaxGpsWrites
    /\ fix_count' = fix_count + 1
    /\ gps_thread' = "loop"
    /\ IF store_connection \in {"none", "gps"}
       THEN /\ store_connection' = "gps"
            /\ rows_written' = rows_written + 1
            /\ written_after_close' = (written_after_close \/ closed_by_stop)
       ELSE UNCHANGED <<store_connection, rows_written, written_after_close,
                        nonCloseVars>>
    /\ UNCHANGED <<stop_step, gps_logger_running, closed_by_stop,
                   nonCloseVars>>

\* stop() up to gps.stop(): GPSLogger.stop clears _running and joins.
StopGpsSignal ==
    /\ stop_step = "scanning"
    /\ gps_logger_running' = FALSE
    /\ stop_step' = "join"
    /\ UNCHANGED <<store_connection, gps_thread, fix_count, rows_written,
                   closed_by_stop, written_after_close, nonCloseVars>>

\* join(timeout=5.0) returns when the thread has ended or the time is up.
JoinReturns == TRUE

StopGpsJoin ==
    /\ stop_step = "join"
    /\ JoinReturns
    /\ stop_step' = "session"
    /\ UNCHANGED <<store_connection, gps_thread, gps_logger_running, fix_count,
                   rows_written, closed_by_stop, written_after_close,
                   nonCloseVars>>

\* update_session on the main thread: connect() returns the connection or
\* creates one; one created by the GPS thread raises ProgrammingError and
\* stop() ends there.
StopUpdateSession ==
    /\ stop_step = "session"
    /\ IF store_connection \in {"none", "main"}
       THEN /\ store_connection' = "main"
            /\ stop_step' = "close"
       ELSE /\ stop_step' = "raised"
            /\ UNCHANGED store_connection
    /\ UNCHANGED <<gps_thread, gps_logger_running, fix_count, rows_written,
                   closed_by_stop, written_after_close, nonCloseVars>>

\* flush_buffer() and close(): the connection is closed and forgotten.
StopFlushClose ==
    /\ stop_step = "close"
    /\ store_connection' = "none"
    /\ closed_by_stop' = TRUE
    /\ stop_step' = "stopped"
    /\ UNCHANGED <<gps_thread, gps_logger_running, fix_count, rows_written,
                   written_after_close, nonCloseVars>>

CloseNext ==
    \/ GpsLoopTest
    \/ GpsFetch
    \/ GpsCallbackWrite
    \/ StopGpsSignal
    \/ StopGpsJoin
    \/ StopUpdateSession
    \/ StopFlushClose

CloseSpec == StoreSpecInit /\ [][CloseNext]_vars

\* C36: once stop() has closed the store it stays closed: no component
\* task writes to the store or reopens its connection afterwards.
C36_StoreStaysClosed ==
    closed_by_stop => (store_connection = "none" /\ ~written_after_close)

\* Position of component c in the sequence order, 0 when absent.
IndexIn(order, c) ==
    IF \E i \in 1..Len(order) : order[i] = c
    THEN CHOOSE i \in 1..Len(order) : order[i] = c
    ELSE 0

\* For each component, the components that follow it in the order.
After(order) ==
    [c \in Components |->
        {d \in Components : IndexIn(order, c) < IndexIn(order, d)}]

\* The component c is brought up by this step.
Starts(c) == comp[c] /= "started" /\ comp'[c] = "started"

\* The component c is shut down by this step.
Stops(c) == comp[c] = "started" /\ comp'[c] = "stopped"

\* Store, GPS, upstream poller with its channel hopper, fingerprint engine,
\* power monitor, external capture tool.
DocumentedOrder == <<"database", "gps", "kismet", "engine", "power", "tshark">>

\* C38: start() brings the components up in the order Store, GPS, Upstream
\* Poller, Channel Hop, Fingerprint Engine, Power Monitor, external capture
\* tool: when a component is started, none that follows it in this order
\* has been started already.
C38_DocumentedStartupOrder ==
    [][\A c \in Components :
          Starts(c) => \A d \in After(DocumentedOrder)[c] :
                          comp[d] /= "started"]_vars

\* The order in which start() brings the components up.
StartupOrder == <<"database", "gps", "kismet", "tshark", "engine", "power">>

\* The components stop() has a shutdown step for.
Stoppable == {"power", "tshark", "kismet", "gps"}

\* The steps of stop() that follow the component shutdown.
AfterComponents == {"session", "flush", "close", "restore", "clear"}

\* start() follows StartupOrder, and a component shut down by stop() is
\* shut down when every stoppable component started after it is down.
ReverseOfStartup ==
    \A c \in Components :
       /\ Starts(c) => \A d \in After(StartupOrder)[c] : comp[d] /= "started"
       /\ Stops(c) => \A d \in After(StartupOrder)[c] \cap Stoppable :
                         comp[d] /= "started"

\* A stop() invocation goes from flushing to closing the store, from there
\* to the interface restore, then to clearing the global, then returns.
TailInOrder ==
    \A c \in Contexts :
       (stopPc[c] \in AfterComponents /\ stopPc'[c] /= stopPc[c])
          => \/ stopPc'[c] = "raised"
             \/ stopPc[c] = "session" /\ stopPc'[c] = "flush"
             \/ stopPc[c] = "flush" /\ stopPc'[c] = "close"
             \/ /\ stopPc[c] = "flush"
                /\ comp["database"] = "none"
                /\ stopPc'[c] = "restore"
             \/ /\ stopPc[c] = "close"
                /\ stopPc'[c] = "restore"
                /\ connection' = "none"
             \/ /\ stopPc[c] = "restore"
                /\ stopPc'[c] = "clear"
                /\ restoreCalls' = restoreCalls + 1
             \/ /\ stopPc[c] = "clear"
                /\ stopPc'[c] = "returned"
                /\ ~active_orchestrator'

JoinStart ==
    /\ joinPc = "start"
    /\ \E on \in SUBSET {"gps", "kismet", "power"} :
          task_alive' = [t \in LongTasks |-> t \in on \cup {"main_loop"}]
    /\ joinPc' = "scanning"
    /\ UNCHANGED <<task_quit, joined, nonJoinVars>>

\* A task's loop tests its flag and ends: _poll_loop, _monitor_loop and
\* _main_loop are `while self._running ...` loops.
TaskExit(t) ==
    /\ task_alive[t]
    /\ task_quit[t]
    /\ task_alive' = [task_alive EXCEPT ![t] = FALSE]
    /\ UNCHANGED <<joinPc, task_quit, joined, nonJoinVars>>

\* stop(), lines 518-519: _running = False and _shutdown_event.set(), the
\* two conditions of the main loop.
JoinStopSet ==
    /\ joinPc = "scanning"
    /\ task_quit' = [task_quit EXCEPT !["main_loop"] = TRUE]
    /\ joinPc' = "power"
    /\ UNCHANGED <<task_alive, joined, nonJoinVars>>

\* <component>.stop(), first statement: the component's _running = False.
\* A component that was not created is skipped.
ComponentQuit(t, next) ==
    /\ joinPc = t
    /\ IF task_alive[t] \/ task_quit[t]
       THEN /\ task_quit' = [task_quit EXCEPT ![t] = TRUE]
            /\ joinPc' = "join_" \o t
       ELSE /\ joinPc' = next
            /\ UNCHANGED task_quit
    /\ UNCHANGED <<task_alive, joined, nonJoinVars>>

\* <component>.stop(), self._thread.join(timeout=5.0): returns when the
\* thread has ended or when the timeout has passed.
ComponentJoin(t, next) ==
    /\ joinPc = "join_" \o t
    /\ joined' = joined \cup {t}
    /\ joinPc' = next
    /\ UNCHANGED <<task_alive, task_quit, nonJoinVars>>

\* tshark.stop_capture(): SIGTERM, wait(timeout=5), kill.
JoinStopCapture ==
    /\ joinPc = "tshark"
    /\ joinPc' = "kismet"
    /\ UNCHANGED <<task_alive, task_quit, joined, nonJoinVars>>

\* Lines 535-556: session row, flush, close, restore, clear; stop() returns.
JoinStopTail ==
    /\ joinPc = "tail"
    /\ joinPc' = "returned"
    /\ UNCHANGED <<task_alive, task_quit, joined, nonJoinVars>>

JoinNext ==
    \/ JoinStart
    \/ \E t \in LongTasks : TaskExit(t)
    \/ JoinStopSet
    \/ ComponentQuit("power", "tshark")
    \/ ComponentJoin("power", "tshark")
    \/ JoinStopCapture
    \/ ComponentQuit("kismet", "gps")
    \/ ComponentJoin("kismet", "gps")
    \/ ComponentQuit("gps", "tail")
    \/ ComponentJoin("gps", "tail")
    \/ JoinStopTail

JoinSpec == StoreSpecInit /\ [][JoinNext]_vars

\* C39: stop() sets the shared quit flag and joins every long-running task
\* (GPS polling, upstream poller, orchestrator main loop, power monitor)
\* with a bounded timeout: when stop() has returned, every task that ran
\* has been told to end and has been joined.
C39_EveryTaskJoined ==
    joinPc = "returned"
       => \A t \in LongTasks :
             (task_alive[t] \/ task_quit[t]) => (task_quit[t] /\ t \in joined)

\* C40: every fingerprint the engine computes inserts the corresponding
\* FingerprintSignature into the store or, when that hash is already stored,
\* increments its times_seen.
C40_SignatureUpsertedPerFingerprint ==
    [][(\E kind \in {"wifi", "bt"} : fingerprints'[kind] > fingerprints[kind])
          => LET id == SelectSignature(tables["sig"], "h1")
             IN  IF id = 0
                 THEN SelectSignature(tables'["sig"], "h1") /= 0
                 ELSE tables'["sig"][id].times_seen =
                         tables["sig"][id].times_seen + 1]_vars

====
